---- MODULE Spec2Model ----
(***************************************************************************)
(* Model of src/src/team_info_collector.py: the comment parser             *)
(* (parse_team_info), the collection loop (collect_team_info) and the      *)
(* validator (validate_teams).                                             *)
(*                                                                         *)
(* A comment body is a sequence of tokens.  A token stands for one         *)
(* character of the body or for one fixed phrase of the template that the  *)
(* code only ever tests as a whole.  The phrases are written in ASCII:     *)
(*   "Submit"       the marker phrase of line 90 (team info submission)    *)
(*   "TeamName"     the team-name phrase of lines 90 and 95                *)
(*   "TeamAccount"  the account label of line 120                          *)
(*   "TeamRepo"     the repository label of line 124                       *)
(*   "SubmitTime"   the submission-time label of line 128                  *)
(*   "MemberName", "Name"          the name header labels of line 111      *)
(*   "PersonalGitHubID", "GitHubID" the id header labels of line 112       *)
(*   "Link"         the third header cell of the template                  *)
(*   "FWColon"      the full-width colon, ":" the ASCII colon              *)
(*   "**" bold mark, "|" pipe, "-" dash, " " blank, "\n" newline           *)
(* Every other token is an ordinary character.                             *)
(***************************************************************************)
EXTENDS Integers, Sequences, FiniteSets, TLC

VARIABLES
    pc,          \* position of the operation under study
    template,    \* the submission a comment body was written from
    p_body,      \* parse_team_info: its comment_body argument
    p_out,       \* parse_team_info: its outcome
    c_comments,  \* collect_team_info: the list get_issue_comments returned
    c_i,         \* collect_team_info: number of comments the for loop has consumed
    c_teams,     \* collect_team_info: the local list teams
    c_out,       \* collect_team_info: its outcome
    v_teams,     \* validate_teams: its teams argument
    v_min,       \* validate_teams: its min_members argument
    v_max,       \* validate_teams: its max_members argument
    v_i,         \* validate_teams: number of teams the for loop has consumed
    v_names,     \* validate_teams: the local set team_names
    v_issues,    \* validate_teams: the local dict issues
    x_teams,     \* a caller of the exports: its list teams
    x_min,       \* the caller's min_members
    x_max,       \* the caller's max_members
    x_findings,  \* the caller's issues: <<>> until validate_teams returned
    x_csv,       \* the file export_to_csv wrote, <<>> before
    x_members_csv,   \* the file export_members_to_csv wrote
    x_json,          \* the file export_to_json wrote
    x_members_json,  \* the file export_members_to_json wrote
    x_md,            \* the file export_to_markdown wrote
    x_html,          \* the file export_to_html wrote
    m_args,      \* main: the switches of the command line
    m_out,       \* main: its outcome
    dom,         \* the report in the browser: the classes of its buttons and
                 \* sections, and the view of the last click
    f_remote,    \* the remote: its answer to the request for each page
    f_page,      \* get_issue_comments: the local page
    f_log,       \* the requests made so far: the page asked and the status received
    f_comments   \* get_issue_comments: the local list comments

vars == <<pc, template, p_body, p_out, c_comments, c_i, c_teams, c_out,
          v_teams, v_min, v_max, v_i, v_names, v_issues,
          x_teams, x_min, x_max, x_findings, x_csv, x_members_csv,
          x_json, x_members_json, x_md, x_html,
          m_args, m_out, dom, f_remote, f_page, f_log, f_comments>>

m_vars == <<m_args, m_out, dom>>

f_vars == <<f_remote, f_page, f_log, f_comments>>

x_vars == <<x_teams, x_min, x_max, x_findings, x_csv, x_members_csv,
            x_json, x_members_json, x_md, x_html>>

(***************************************************************************)
(* Python values                                                           *)
(***************************************************************************)
\* An optional value is <<>> for None and <<v>> for the value v.
\* The outcome of a call: a returned value or a raised exception.
Raised(kind) == [tag |-> "raised", value |-> <<>>, exc |-> kind]

Returned(v) == [tag |-> "returned", value |-> v, exc |-> ""]

SetMin(S) == CHOOSE x \in S : \A y \in S : x <= y

SetMax(S) == CHOOSE x \in S : \A y \in S : y <= x

(***************************************************************************)
(* str and re primitives used by parse_team_info                           *)
(***************************************************************************)
\* \s of the re module and the characters str.strip() removes
IsSpace(c) == c \in {" ", "\n"}

\* str.strip()
strip(s) ==
    LET keep == {i \in 1..Len(s) : ~IsSpace(s[i])}
    IN  IF keep = {} THEN <<>> ELSE SubSeq(s, SetMin(keep), SetMax(keep))

\* phrase in s, for a phrase that is one token
Contains(s, phrase) == \E i \in 1..Len(s) : s[i] = phrase

\* '---' in s
HasDashRun(s) ==
    \E i \in 1..(Len(s) - 2) : s[i] = "-" /\ s[i+1] = "-" /\ s[i+2] = "-"

\* the literal part \*\*<label>[FWColon:]\*\* of a labeled-field pattern, at i
LabelAt(s, i, label) ==
    /\ i + 3 <= Len(s)
    /\ s[i] = "**"
    /\ s[i+1] = label
    /\ s[i+2] \in {"FWColon", ":"}
    /\ s[i+3] = "**"

\* end of the longest run of \s starting at j (the greedy \s*)
WsEnd(s, j) ==
    SetMin({p \in j..(Len(s) + 1) : p > Len(s) \/ ~IsSpace(s[p])})

\* positions where (.+) can start after \s* has matched from j, backtracking
\* included: \s* gives characters back until a character other than newline
\* follows
GroupStarts(s, j) ==
    {p \in j..WsEnd(s, j) : p <= Len(s) /\ s[p] # "\n"}

\* last position of the greedy .+ starting at p
LineEnd(s, p) ==
    SetMin({q \in p..Len(s) : q = Len(s) \/ s[q+1] = "\n"})

\* re.search(r'\*\*<label>[FWColon:]\*\*\s*(.+)', s): the leftmost match, with
\* its group(1)
re_search_label(s, label) ==
    LET starts == {i \in 1..Len(s) :
                      LabelAt(s, i, label) /\ GroupStarts(s, i + 4) # {}}
    IN  IF starts = {}
        THEN [matched |-> FALSE, group1 |-> <<>>]
        ELSE LET i == SetMin(starts)
                 p == SetMax(GroupStarts(s, i + 4))
             IN  [matched |-> TRUE, group1 |-> SubSeq(s, p, LineEnd(s, p))]

\* first pipe at or after a, 0 when there is none
RECURSIVE NextPipe(_, _)
NextPipe(s, a) ==
    IF a > Len(s) THEN 0
    ELSE IF s[a] = "|" THEN a
    ELSE NextPipe(s, a + 1)

\* a match of \|([^|]+)\|([^|]+)\|([^|]+)\| starting at st: its four pipes,
\* <<>> when the pattern does not match there
RowAt(s, st) ==
    IF st > Len(s) \/ s[st] # "|" THEN <<>>
    ELSE LET p2 == NextPipe(s, st + 1)
         IN  IF p2 <= st + 1 THEN <<>>
             ELSE LET p3 == NextPipe(s, p2 + 1)
                  IN  IF p3 <= p2 + 1 THEN <<>>
                      ELSE LET p4 == NextPipe(s, p3 + 1)
                           IN  IF p4 <= p3 + 1 THEN <<>>
                               ELSE <<st, p2, p3, p4>>

\* the leftmost match of the table pattern starting at or after pos, <<>>
\* when there is none
RECURSIVE FirstRow(_, _)
FirstRow(s, pos) ==
    IF pos > Len(s) THEN <<>>
    ELSE IF RowAt(s, pos) # <<>> THEN RowAt(s, pos)
    ELSE FirstRow(s, pos + 1)

\* re.findall(table_pattern, s) from position pos on: the groups of the
\* non-overlapping matches, left to right
RECURSIVE re_findall_rows(_, _)
re_findall_rows(s, pos) ==
    LET r == FirstRow(s, pos)
    IN  IF r = <<>> THEN <<>>
        ELSE << <<SubSeq(s, r[1] + 1, r[2] - 1),
                  SubSeq(s, r[2] + 1, r[3] - 1),
                  SubSeq(s, r[3] + 1, r[4] - 1)>> >>
             \o re_findall_rows(s, r[4] + 1)

(***************************************************************************)
(* parse_team_info (lines 86-145)                                          *)
(***************************************************************************)
\* the phrase of another label written where the team-name phrase belongs
TEAM_NAME_PHRASE_wrong == "TeamAccount"

\* the phrase of the gate (line 90) and of the team-name pattern (line 95)
TEAM_NAME_PHRASE == "TeamName"

\* the marker phrase of the gate (line 90)
SUBMIT_PHRASE == "Submit"

Dashes7 == <<"-", "-", "-", "-", "-", "-", "-">>

\* the condition of lines 111-113 under which a table match is skipped
IsHeaderOrSeparator(name, github_id, github_url) ==
    \/ name \in {<<"MemberName">>, Dashes7, <<"Name">>}
    \/ github_id \in {<<"PersonalGitHubID">>, Dashes7, <<"GitHubID">>}
    \/ HasDashRun(name) \/ HasDashRun(github_id) \/ HasDashRun(github_url)

TeamMember(name, github_id, github_url) ==
    [name |-> name, github_id |-> github_id, github_url |-> github_url]

\* members_of with the name cell left untrimmed
RECURSIVE members_of_untrimmed(_)
members_of_untrimmed(table_matches) ==
    IF table_matches = <<>> THEN <<>>
    ELSE LET match == Head(table_matches)
             name == match[1]
             github_id == strip(match[2])
             github_url == strip(match[3])
             rest == members_of_untrimmed(Tail(table_matches))
         IN  IF IsHeaderOrSeparator(name, github_id, github_url) THEN rest
             ELSE IF name # <<>> /\ github_id # <<>> /\ github_url # <<>>
                  THEN <<TeamMember(name, github_id, github_url)>> \o rest
                  ELSE rest

\* the for loop of lines 105-117 over the table matches
RECURSIVE members_of(_)
members_of(table_matches) ==
    IF table_matches = <<>> THEN <<>>
    ELSE LET match == Head(table_matches)
             name == strip(match[1])
             github_id == strip(match[2])
             github_url == strip(match[3])
             rest == members_of(Tail(table_matches))
         IN  IF IsHeaderOrSeparator(name, github_id, github_url) THEN rest
             ELSE IF name # <<>> /\ github_id # <<>> /\ github_url # <<>>
                  THEN <<TeamMember(name, github_id, github_url)>> \o rest
                  ELSE rest

\* an optional field that is None when its label does not match
optional_field_none(body, label) ==
    LET m == re_search_label(body, label)
    IN  IF m.matched THEN strip(m.group1) ELSE <<"None">>

\* an optional labeled field (lines 120-129): "" when its label does not match
optional_field(body, label) ==
    LET m == re_search_label(body, label)
    IN  IF m.matched THEN strip(m.group1) ELSE <<>>

\* try_block with the result condition of line 131 written with "or"
try_block_or(body, comment_id, author) ==
    LET team_name_match == re_search_label(body, TEAM_NAME_PHRASE)
    IN  IF ~team_name_match.matched THEN Returned(<<>>)
        ELSE LET team_name == strip(team_name_match.group1)
                 members == members_of(re_findall_rows(body, 1))
             IN  IF team_name # <<>> \/ members # <<>>
                 THEN Returned(<<[team_name |-> team_name,
                                  members |-> members,
                                  team_github_account |-> optional_field(body, "TeamAccount"),
                                  team_repo_url |-> optional_field(body, "TeamRepo"),
                                  submission_time |-> optional_field(body, "SubmitTime"),
                                  comment_id |-> comment_id,
                                  comment_author |-> author]>>)
                 ELSE Returned(<<>>)

\* the try block of lines 93-140; body is a str here.  No statement of the
\* block raises on a str, so the outcome is always a return.
try_block(body, comment_id, author) ==
    LET team_name_match == re_search_label(body, TEAM_NAME_PHRASE)
    IN  IF ~team_name_match.matched THEN Returned(<<>>)
        ELSE LET team_name == strip(team_name_match.group1)
                 members == members_of(re_findall_rows(body, 1))
             IN  IF team_name # <<>> /\ members # <<>>
                 THEN Returned(<<[team_name |-> team_name,
                                  members |-> members,
                                  team_github_account |-> optional_field(body, "TeamAccount"),
                                  team_repo_url |-> optional_field(body, "TeamRepo"),
                                  submission_time |-> optional_field(body, "SubmitTime"),
                                  comment_id |-> comment_id,
                                  comment_author |-> author]>>)
                 ELSE Returned(<<>>)

\* parse_team_info: the gate of lines 90-91 runs before the try statement, so
\* what it raises leaves the function; what the try block raises is caught
\* (lines 142-145) and None is returned.  comment_body is <<s>> for a str s
\* and <<>> for None (a JSON null).
parse_team_info(comment_body, comment_id, author) ==
    IF comment_body = <<>> THEN Raised("TypeError")
    ELSE LET body == comment_body[1]
         IN  IF ~Contains(body, SUBMIT_PHRASE) /\ ~Contains(body, TEAM_NAME_PHRASE)
             THEN Returned(<<>>)
             ELSE LET r == try_block(body, comment_id, author)
                  IN  IF r.tag = "raised" THEN Returned(<<>>) ELSE r

(***************************************************************************)
(* validate_teams (lines 484-518)                                          *)
(***************************************************************************)
\* the dict without its set of names
NewIssues_four_keys ==
    [missing_info |-> <<>>,
     duplicate_teams |-> <<>>,
     invalid_urls |-> <<>>,
     member_count_issues |-> <<>>]

\* the dict of lines 486-492
NewIssues ==
    [missing_info |-> <<>>,
     duplicate_teams |-> <<>>,
     invalid_urls |-> <<>>,
     member_count_issues |-> <<>>,
     member_count_invalid_team_names |-> {}]

\* the prefix without its https scheme
GITHUB_PREFIX_http == <<"http://github.com", "/">>

\* the prefix of line 515
GITHUB_PREFIX == <<"https://github.com", "/">>

\* str.startswith
startswith(s, prefix) ==
    Len(s) >= Len(prefix) /\ SubSeq(s, 1, Len(prefix)) = prefix

\* check_duplicate with the membership test negated
check_duplicate_negated(issues, team, team_names) ==
    IF team.team_name \notin team_names
    THEN [issues EXCEPT !.duplicate_teams = Append(@, team.team_name)]
    ELSE issues

\* lines 498-499: a name already in team_names is appended to duplicate_teams
check_duplicate(issues, team, team_names) ==
    IF team.team_name \in team_names
    THEN [issues EXCEPT !.duplicate_teams = Append(@, team.team_name)]
    ELSE issues

\* check_missing with "and" for "or"
check_missing_and(issues, team) ==
    IF team.team_name = <<>> /\ team.members = <<>>
    THEN [issues EXCEPT !.missing_info = Append(@, [team |-> team.team_name])]
    ELSE issues

\* lines 503-504; the message names the team
check_missing(issues, team) ==
    IF team.team_name = <<>> \/ team.members = <<>>
    THEN [issues EXCEPT !.missing_info = Append(@, [team |-> team.team_name])]
    ELSE issues

\* check_member_count with the bounds taken as exclusive
check_member_count_exclusive(issues, team, min_members, max_members) ==
    IF Len(team.members) <= min_members
    THEN [issues EXCEPT
            !.member_count_issues =
                Append(@, [team |-> team.team_name, kind |-> "too_few",
                           count |-> Len(team.members), bound |-> min_members]),
            !.member_count_invalid_team_names = @ \cup {team.team_name}]
    ELSE IF Len(team.members) >= max_members
    THEN [issues EXCEPT
            !.member_count_issues =
                Append(@, [team |-> team.team_name, kind |-> "too_many",
                           count |-> Len(team.members), bound |-> max_members]),
            !.member_count_invalid_team_names = @ \cup {team.team_name}]
    ELSE issues

\* lines 507-512; the message names the team, the count and the bound
check_member_count(issues, team, min_members, max_members) ==
    IF Len(team.members) < min_members
    THEN [issues EXCEPT
            !.member_count_issues =
                Append(@, [team |-> team.team_name, kind |-> "too_few",
                           count |-> Len(team.members), bound |-> min_members]),
            !.member_count_invalid_team_names = @ \cup {team.team_name}]
    ELSE IF Len(team.members) > max_members
    THEN [issues EXCEPT
            !.member_count_issues =
                Append(@, [team |-> team.team_name, kind |-> "too_many",
                           count |-> Len(team.members), bound |-> max_members]),
            !.member_count_invalid_team_names = @ \cup {team.team_name}]
    ELSE issues

\* check_url without the test that the URL is non-empty
check_url_flags_empty(issues, team) ==
    IF ~startswith(team.team_repo_url, GITHUB_PREFIX)
    THEN [issues EXCEPT !.invalid_urls = Append(@, [team |-> team.team_name])]
    ELSE issues

\* lines 515-516; the message names the team
check_url(issues, team) ==
    IF team.team_repo_url # <<>> /\ ~startswith(team.team_repo_url, GITHUB_PREFIX)
    THEN [issues EXCEPT !.invalid_urls = Append(@, [team |-> team.team_name])]
    ELSE issues

\* the body of the for loop (lines 496-516) for one team
validate_one(issues, team, team_names, min_members, max_members) ==
    check_url(
        check_member_count(
            check_missing(check_duplicate(issues, team, team_names), team),
            team, min_members, max_members),
        team)

\* validate_teams as one call (lines 484-518): the loop run over teams[1..n]
RECURSIVE validate_prefix(_, _, _, _)
validate_prefix(teams, n, min_members, max_members) ==
    IF n = 0 THEN NewIssues
    ELSE validate_one(validate_prefix(teams, n - 1, min_members, max_members),
                      teams[n],
                      {teams[i].team_name : i \in 1..(n - 1)},
                      min_members, max_members)

validate_teams(teams, min_members, max_members) ==
    validate_prefix(teams, Len(teams), min_members, max_members)

(***************************************************************************)
(* Python built-ins the exports use                                        *)
(***************************************************************************)
Digits == <<"0", "1", "2", "3", "4", "5", "6", "7", "8", "9">>

RECURSIVE StrNat(_)
StrNat(n) ==
    IF n < 10 THEN <<Digits[n + 1]>>
    ELSE StrNat(n \div 10) \o <<Digits[(n % 10) + 1]>>

\* str(n) of an int: its decimal digits, one token each
str(n) == IF n < 0 THEN <<"-">> \o StrNat(0 - n) ELSE StrNat(n)

\* sep.join(parts)
RECURSIVE join(_, _)
join(sep, parts) ==
    IF parts = <<>> THEN <<>>
    ELSE IF Len(parts) = 1 THEN parts[1]
    ELSE parts[1] \o sep \o join(sep, Tail(parts))

\* the concatenation of a list of lists
RECURSIVE Concat(_)
Concat(ls) == IF ls = <<>> THEN <<>> ELSE Head(ls) \o Concat(Tail(ls))

\* sum(len(team.members) for team in teams)
RECURSIVE total_members_of(_)
total_members_of(teams) ==
    IF teams = <<>> THEN 0
    ELSE Len(Head(teams).members) + total_members_of(Tail(teams))

\* `x or set()' and `x or []' on an optional argument (None is <<>>)
or_set(x) == IF x = <<>> THEN {} ELSE x[1]

or_list(x) == IF x = <<>> THEN <<>> ELSE x[1]

(***************************************************************************)
(* sorted(teams, key=lambda team: len(team.members), reverse=True)         *)
(* (lines 172, 265, 355, 395, 522).  Python's sort is stable, and with     *)
(* reverse=True equal keys still keep their input order: every team is     *)
(* placed behind the teams already placed that have at least as many       *)
(* members.                                                                *)
(***************************************************************************)
\* insertion in front of the teams with the same member count
insert_before_equal(placed, team) ==
    LET k == Cardinality({i \in 1..Len(placed) :
                            Len(placed[i].members) > Len(team.members)})
    IN  SubSeq(placed, 1, k) \o <<team>> \o SubSeq(placed, k + 1, Len(placed))

insert_desc(placed, team) ==
    LET k == Cardinality({i \in 1..Len(placed) :
                            Len(placed[i].members) >= Len(team.members)})
    IN  SubSeq(placed, 1, k) \o <<team>> \o SubSeq(placed, k + 1, Len(placed))

RECURSIVE sorted_prefix(_, _)
sorted_prefix(teams, n) ==
    IF n = 0 THEN <<>>
    ELSE insert_desc(sorted_prefix(teams, n - 1), teams[n])

\* list.sort(...) in place: the argument itself is reordered
list_sort(teams) ==
    [value |-> sorted_prefix(teams, Len(teams)),
     arg |-> sorted_prefix(teams, Len(teams))]

\* sorted(...) builds a new list (value) and leaves its argument (arg) alone
sorted(teams) ==
    [value |-> sorted_prefix(teams, Len(teams)), arg |-> teams]

\* lines 520-522
sort_teams_by_member_count(teams) == sorted(teams).value

(***************************************************************************)
(* The exports (lines 168-309).  A written file is a list of rows; a row   *)
(* is a kind and its cells, and a cell is a string.  The fixed texts are   *)
(* one token each.  Every export is a record: file, the file it wrote, and *)
(* teams, the caller's list as the call leaves it.                         *)
(***************************************************************************)
Row(kind, cells) == [kind |-> kind, cells |-> cells]

\* the marker glyph of lines 186 and 290
WARN_MARK == <<"WarnMark">>

\* the f-strings of lines 508 and 511
issue_text(issue) ==
    <<"Team", " ">> \o issue.team \o
    <<" ", IF issue.kind = "too_few" THEN "TooFew" ELSE "TooMany", " ", "(">> \o
    str(issue.count) \o
    <<" ", IF issue.kind = "too_few" THEN "<" ELSE ">", " ">> \o
    str(issue.bound) \o <<")">>

\* a warning block that is written also when there is no issue
warning_block_always(member_count_issues) ==
    <<Row("warning_title", <<<<"WarningTitle">>>>)>>
    \o [i \in 1..Len(member_count_issues) |->
           Row("warning", <<issue_text(member_count_issues[i])>>)]
    \o <<Row("blank", <<>>)>>

\* lines 176-180 and 279-283: the title, one row per issue, an empty row
warning_block(member_count_issues) ==
    IF member_count_issues = <<>> THEN <<>>
    ELSE <<Row("warning_title", <<<<"WarningTitle">>>>)>>
         \o [i \in 1..Len(member_count_issues) |->
                Row("warning", <<issue_text(member_count_issues[i])>>)]
         \o <<Row("blank", <<>>)>>

\* lines 185 and 289
members_text(team) ==
    join(<<",", " ">>,
         [i \in 1..Len(team.members) |->
            team.members[i].name \o <<"(", "@">> \o team.members[i].github_id
            \o <<")">>])

\* lines 186-194 and 290-291
team_row(idx, team, invalid_team_names) ==
    Row("team",
        << str(idx),
           team.team_name \o (IF team.team_name \in invalid_team_names
                              THEN WARN_MARK ELSE <<>>),
           str(Len(team.members)),
           members_text(team),
           team.team_github_account,
           team.team_repo_url >>)

team_rows(teams, invalid_team_names) ==
    [idx \in 1..Len(teams) |-> team_row(idx, teams[idx], invalid_team_names)]

\* lines 211-212 and 302
member_row(idx, team, member) ==
    Row("member",
        << str(idx), team.team_name, member.name, member.github_id,
           member.github_url, team.team_github_account, team.team_repo_url,
           team.submission_time, team.comment_author >>)

\* lines 208-214 and 299-304: idx runs over the members of all teams
RECURSIVE member_rows(_, _)
member_rows(teams, idx) ==
    IF teams = <<>> THEN <<>>
    ELSE [m \in 1..Len(Head(teams).members) |->
             member_row(idx + m - 1, Head(teams), Head(teams).members[m])]
         \o member_rows(Tail(teams), idx + Len(Head(teams).members))

TEAM_HEADER ==
    Row("team_header",
        << <<"TeamNo">>, <<"TeamName">>, <<"MemberCount">>, <<"Members">>,
           <<"TeamAccount">>, <<"TeamRepo">> >>)

MEMBER_HEADER ==
    Row("member_header",
        << <<"MemberNo">>, <<"TeamName">>, <<"MemberName">>, <<"GitHubId">>,
           <<"GitHubLink">>, <<"TeamAccount">>, <<"TeamRepo">>,
           <<"SubmitTime">>, <<"Author">> >>)

\* lines 168-197
export_to_csv(teams, invalid_team_names, member_count_issues) ==
    LET s == sorted(teams)
    IN  [file |-> warning_block(or_list(member_count_issues))
                  \o <<TEAM_HEADER>>
                  \o team_rows(s.value, or_set(invalid_team_names)),
         teams |-> s.arg]

\* lines 199-216: the rows follow teams as given
export_members_to_csv(teams) ==
    [file |-> <<MEMBER_HEADER>> \o member_rows(teams, 1),
     teams |-> teams]

(***************************************************************************)
(* json.dump(data, f, ensure_ascii=False, indent=2) and json.load.  The    *)
(* nesting of objects and arrays is kept as records and lists; every str   *)
(* and int in it is written as its JSON literal, character by character,   *)
(* and read back from that literal.                                        *)
(***************************************************************************)
\* an encoder that writes the backslash as it is
escape_char_quote_only(c) ==
    CASE c = "\"" -> <<"\\", "\"">>
      [] c = "\n" -> <<"\\", "n">>
      [] c = "\t" -> <<"\\", "t">>
      [] OTHER -> <<c>>

\* json.encoder ESCAPE_DCT: the characters that are written escaped
escape_char(c) ==
    CASE c = "\"" -> <<"\\", "\"">>
      [] c = "\\" -> <<"\\", "\\">>
      [] c = "\n" -> <<"\\", "n">>
      [] c = "\t" -> <<"\\", "t">>
      [] OTHER -> <<c>>

\* json.dumps of a str
json_dumps_str(s) ==
    <<"\"">> \o Concat([i \in 1..Len(s) |-> escape_char(s[i])]) \o <<"\"">>

\* json.dumps of an int
json_dumps_int(n) == str(n)

\* json.decoder BACKSLASH: the character an escape stands for
unescape_char(c) ==
    CASE c = "n" -> "\n"
      [] c = "t" -> "\t"
      [] OTHER -> c

\* json.decoder py_scanstring: the characters from position i up to the
\* closing quote
RECURSIVE scanstring(_, _)
scanstring(text, i) ==
    IF i > Len(text) \/ text[i] = "\"" THEN <<>>
    ELSE IF text[i] = "\\" /\ i < Len(text)
    THEN <<unescape_char(text[i + 1])>> \o scanstring(text, i + 2)
    ELSE <<text[i]>> \o scanstring(text, i + 1)

\* json.loads of a string literal
json_loads_str(text) == scanstring(text, 2)

DigitValue(c) == CHOOSE d \in 0..9 : Digits[d + 1] = c

RECURSIVE IntNat(_)
IntNat(text) ==
    IF text = <<>> THEN 0
    ELSE IntNat(SubSeq(text, 1, Len(text) - 1)) * 10 + DigitValue(text[Len(text)])

\* json.loads of an int literal
json_loads_int(text) ==
    IF text[1] = "-" THEN 0 - IntNat(Tail(text)) ELSE IntNat(text)

\* asdict(member), written
member_json(member) ==
    [name |-> json_dumps_str(member.name),
     github_id |-> json_dumps_str(member.github_id),
     github_url |-> json_dumps_str(member.github_url)]

\* asdict(team) of line 224, written
team_json(team) ==
    [team_name |-> json_dumps_str(team.team_name),
     members |-> [i \in 1..Len(team.members) |-> member_json(team.members[i])],
     team_github_account |-> json_dumps_str(team.team_github_account),
     team_repo_url |-> json_dumps_str(team.team_repo_url),
     submission_time |-> json_dumps_str(team.submission_time),
     comment_id |-> json_dumps_int(team.comment_id),
     comment_author |-> json_dumps_str(team.comment_author)]

\* total_members taken to be the number of teams
total_members_as_teams(teams) == Len(teams)

\* line 223
total_members(teams) == total_members_of(teams)

\* lines 218-230: the teams are written in the order given
export_to_json(teams) ==
    [file |-> [export_time |-> json_dumps_str(<<"now">>),
               total_teams |-> json_dumps_int(Len(teams)),
               total_members |-> json_dumps_int(total_members(teams)),
               teams |-> [i \in 1..Len(teams) |-> team_json(teams[i])]],
     teams |-> teams]

\* the dict of lines 238-247, written
member_info_json(team, member) ==
    [team_name |-> json_dumps_str(team.team_name),
     member_name |-> json_dumps_str(member.name),
     github_id |-> json_dumps_str(member.github_id),
     github_url |-> json_dumps_str(member.github_url),
     team_github_account |-> json_dumps_str(team.team_github_account),
     team_repo_url |-> json_dumps_str(team.team_repo_url),
     submission_time |-> json_dumps_str(team.submission_time),
     comment_author |-> json_dumps_str(team.comment_author)]

\* lines 234-248
RECURSIVE members_data(_)
members_data(teams) ==
    IF teams = <<>> THEN <<>>
    ELSE [m \in 1..Len(Head(teams).members) |->
             member_info_json(Head(teams), Head(teams).members[m])]
         \o members_data(Tail(teams))

\* lines 232-259
export_members_to_json(teams) ==
    [file |-> [export_time |-> json_dumps_str(<<"now">>),
               total_members |-> json_dumps_int(Len(members_data(teams))),
               members |-> members_data(teams)],
     teams |-> teams]

\* json.load of the file export_to_json wrote
json_load(file) ==
    [export_time |-> json_loads_str(file.export_time),
     total_teams |-> json_loads_int(file.total_teams),
     total_members |-> json_loads_int(file.total_members),
     teams |->
       [i \in 1..Len(file.teams) |->
          [team_name |-> json_loads_str(file.teams[i].team_name),
           members |->
             [m \in 1..Len(file.teams[i].members) |->
                [name |-> json_loads_str(file.teams[i].members[m].name),
                 github_id |-> json_loads_str(file.teams[i].members[m].github_id),
                 github_url |-> json_loads_str(file.teams[i].members[m].github_url)]],
           team_github_account |-> json_loads_str(file.teams[i].team_github_account),
           team_repo_url |-> json_loads_str(file.teams[i].team_repo_url),
           submission_time |-> json_loads_str(file.teams[i].submission_time),
           comment_id |-> json_loads_int(file.teams[i].comment_id),
           comment_author |-> json_loads_str(file.teams[i].comment_author)]]]

(***************************************************************************)
(* The summary (lines 266-272, 398-404, 573-579)                           *)
(***************************************************************************)
\* the dict group_sizes: member count -> number of teams with that count
group_sizes(teams) ==
    [n \in {Len(teams[i].members) : i \in 1..Len(teams)} |->
        Cardinality({i \in 1..Len(teams) : Len(teams[i].members) = n})]

RECURSIVE items_from(_, _, _)
items_from(d, keys, reverse) ==
    IF keys = {} THEN <<>>
    ELSE LET k == IF reverse THEN SetMax(keys) ELSE SetMin(keys)
         IN  <<[size |-> k, count |-> d[k]]>>
             \o items_from(d, keys \ {k}, reverse)

\* sorted(group_sizes.items()), smallest size first
sorted_items(d) == items_from(d, DOMAIN d, FALSE)

\* sorted(group_sizes.items(), reverse=True): the keys of a dict differ, so
\* the (size, count) pairs are ordered by size alone
sorted_items_reverse(d) == items_from(d, DOMAIN d, TRUE)

\* f"{size}人组: {count}个"
size_entry(size, count) ==
    str(size) \o <<"PersonGroup", ":", " ">> \o str(count) \o <<"Unit">>

\* line 272
group_size_summary(teams) ==
    LET items == sorted_items_reverse(group_sizes(teams))
    IN  join(<<",", " ">>,
             [i \in 1..Len(items) |-> size_entry(items[i].size, items[i].count)])

\* the statistics lines 275-278 and 530-533
stats_rows(total_teams, total_members_, summary) ==
    << Row("total_teams", <<str(total_teams)>>),
       Row("total_members", <<str(total_members_)>>),
       Row("distribution", <<summary>>) >>

\* lines 261-309
export_to_markdown(teams, invalid_team_names, member_count_issues) ==
    LET s == sorted(teams)
    IN  [file |-> <<Row("title", <<<<"ReportTitle">>>>)>>
                  \o stats_rows(Len(teams), total_members_of(teams),
                                group_size_summary(teams))
                  \o warning_block(or_list(member_count_issues))
                  \o <<Row("heading", <<<<"TeamsHeading">>>>), TEAM_HEADER>>
                  \o team_rows(s.value, or_set(invalid_team_names))
                  \o <<Row("heading", <<<<"MembersHeading">>>>), MEMBER_HEADER>>
                  \o member_rows(s.value, 1)
                  \o <<Row("footer", <<<<"Footer">>>>)>>,
         teams |-> s.arg]

(***************************************************************************)
(* The interactive document (lines 311-482, 524-582)                       *)
(***************************************************************************)
\* range(3) of line 543: the member columns of the full table
MEMBER_SLOTS == 3

FULL_HEADER ==
    Row("team_header",
        << <<"TeamNo">>, <<"TeamName">> >>
        \o Concat([i \in 1..MEMBER_SLOTS |->
                     << <<"MemberName", Digits[i + 1]>>,
                        <<"MemberGitHub", Digits[i + 1]>>,
                        <<"MemberLink", Digits[i + 1]>> >>])
        \o << <<"TeamAccount">>, <<"TeamRepo">>, <<"SubmitTime">>, <<"Author">> >>)

\* lines 541-549
full_team_row(idx, team) ==
    Row("team",
        << str(idx), team.team_name >>
        \o Concat([i \in 1..MEMBER_SLOTS |->
                     IF i <= Len(team.members)
                     THEN << team.members[i].name, team.members[i].github_id,
                             team.members[i].github_url >>
                     ELSE << <<>>, <<>>, <<>> >>])
        \o << team.team_github_account, team.team_repo_url,
              team.submission_time, team.comment_author >>)

\* lines 524-560
generate_markdown_content(teams, total_teams, total_members_, summary) ==
    <<Row("title", <<<<"ReportTitle">>>>)>>
    \o stats_rows(total_teams, total_members_, summary)
    \o <<Row("heading", <<<<"TeamsHeading">>>>), FULL_HEADER>>
    \o [idx \in 1..Len(teams) |-> full_team_row(idx, teams[idx])]
    \o <<Row("heading", <<<<"MembersHeading">>>>), MEMBER_HEADER>>
    \o member_rows(teams, 1)
    \o <<Row("footer", <<<<"Footer">>>>)>>

\* the text "| " + " | ".join(row) + " |" of a table row, without its
\* border pipes
row_text(cells) == join(<<" ", "|", " ">>, cells)

\* the pieces of a row text between its pipes, stripped
RECURSIVE split_cells(_)
split_cells(text) ==
    IF \A i \in 1..Len(text) : text[i] # "|" THEN <<strip(text)>>
    ELSE LET p == SetMin({i \in 1..Len(text) : text[i] = "|"})
         IN  <<strip(SubSeq(text, 1, p - 1))>>
             \o split_cells(SubSeq(text, p + 1, Len(text)))

\* markdown.markdown(..., extensions=['tables']) on one table row: the text
\* is split at its pipes and the row gets as many cells as the header has
\* columns, short rows padded with empty cells
markdown_table_row(row, ncols) ==
    LET pieces == split_cells(row_text(row.cells))
    IN  Row(row.kind,
            [i \in 1..ncols |-> IF i <= Len(pieces) THEN pieces[i] ELSE <<>>])

\* line 315: the table view, each table row under the header above it
RECURSIVE markdown_rows(_, _)
markdown_rows(rows, ncols) ==
    IF rows = <<>> THEN <<>>
    ELSE LET r == Head(rows)
         IN  IF r.kind \in {"team_header", "member_header"}
             THEN <<r>> \o markdown_rows(Tail(rows), Len(r.cells))
             ELSE IF r.kind \in {"team", "member"}
             THEN <<markdown_table_row(r, ncols)>>
                  \o markdown_rows(Tail(rows), ncols)
             ELSE <<r>> \o markdown_rows(Tail(rows), ncols)

markdown_markdown(markdown_content) == markdown_rows(markdown_content, 0)

\* lines 357-385: one card per team and one list item per member
card_of(idx, team) ==
    <<Row("card", << str(idx), team.team_name, team.team_github_account,
                     team.team_repo_url, team.submission_time,
                     team.comment_author >>)>>
    \o [m \in 1..Len(team.members) |->
          Row("card_member", << team.members[m].name,
                                team.members[m].github_url,
                                team.members[m].github_id >>)]

\* lines 352-389
generate_cards_view(teams) ==
    LET sorted_teams == sorted(teams).value
    IN  Concat([idx \in 1..Len(sorted_teams) |-> card_of(idx, sorted_teams[idx])])

\* lines 391-482: the statistics, the team table and the member table; a
\* member row has the first seven cells of the member row of the exports
generate_compact_table_view(teams, invalid_team_names) ==
    LET sorted_teams == sorted(teams).value
        members == member_rows(sorted_teams, 1)
    IN  stats_rows(Len(teams), total_members_of(teams), group_size_summary(teams))
        \o <<Row("heading", <<<<"TeamsHeading">>>>), TEAM_HEADER>>
        \o team_rows(sorted_teams, or_set(invalid_team_names))
        \o <<Row("heading", <<<<"MembersHeading">>>>),
             Row("member_header", SubSeq(MEMBER_HEADER.cells, 1, 7))>>
        \o [i \in 1..Len(members) |->
              Row("member", SubSeq(members[i].cells, 1, 7))]

\* the buttons with the full table as the one shown first
VIEW_BUTTONS_table_default ==
    << [view |-> "table", active |-> TRUE],
       [view |-> "compact", active |-> FALSE],
       [view |-> "cards", active |-> FALSE] >>

\* lines 327-331: the toggle buttons, active where class="active"
VIEW_BUTTONS ==
    << [view |-> "compact", active |-> TRUE],
       [view |-> "table", active |-> FALSE],
       [view |-> "cards", active |-> FALSE] >>

\* lines 333-347: the sections, active where class="view-section active"
view_sections(compact_html, table_html, cards_html) ==
    << [id |-> "compact-view", active |-> TRUE, rows |-> compact_html],
       [id |-> "table-view", active |-> FALSE, rows |-> table_html],
       [id |-> "cards-view", active |-> FALSE, rows |-> cards_html] >>

\* lines 311-350
generate_html_with_multiple_views(teams, markdown_content, invalid_team_names) ==
    [buttons |-> VIEW_BUTTONS,
     sections |-> view_sections(
                    generate_compact_table_view(teams, <<or_set(invalid_team_names)>>),
                    markdown_markdown(markdown_content),
                    generate_cards_view(teams))]

\* lines 570-582 and 794-796
export_to_html(teams, invalid_team_names) ==
    LET sorted_teams == sort_teams_by_member_count(teams)
        md_content ==
            generate_markdown_content(sorted_teams, Len(sorted_teams),
                                      total_members_of(sorted_teams),
                                      group_size_summary(sorted_teams))
    IN  [file |-> generate_html_with_multiple_views(sorted_teams, md_content,
                                                     invalid_team_names),
         teams |-> sorted(teams).arg]

(***************************************************************************)
(* Comment bodies: the submission template of the tests                    *)
(* (tests/test_team_info_collector.py, lines 33-49 and 78-82) and          *)
(* departures from it.  A template is a list of text lines, a table head,  *)
(* table rows and a list of trailing text lines; a table row is three raw  *)
(* cells.                                                                  *)
(***************************************************************************)
MaxRows == 2

Blank == <<>>

Plain == <<"h", "i">>

Marker == <<"#", " ", "Submit">>

LabelLine(label, colon, gap, value) ==
    <<"**", label, colon, "**">> \o gap \o value

NameLine == LabelLine("TeamName", "FWColon", <<" ">>, <<"T", " ", "A">>)

NameLineAscii == LabelLine("TeamName", ":", <<>>, <<"B">>)

NameLineBlank == LabelLine("TeamName", "FWColon", <<" ">>, <<>>)

NameLinePipe == LabelLine("TeamName", "FWColon", <<" ">>, <<"T", "|", "A">>)

BarePhrase == <<"TeamName", " ", "T">>

MembersLabel == LabelLine("Members", "FWColon", <<>>, <<>>)

AccountLine == LabelLine("TeamAccount", "FWColon", <<" ">>, <<"t", " ", " ">>)

RepoLine ==
    LabelLine("TeamRepo", "FWColon", <<" ">>, <<"https://github.com", "/", "t">>)

TimeLine == LabelLine("SubmitTime", "FWColon", <<" ">>, <<"2025">>)

HeaderRow ==
    << <<" ", "MemberName", " ">>, <<" ", "PersonalGitHubID", " ">>,
       <<" ", "Link", " ">> >>

HeaderRow2 == << <<"Name">>, <<"GitHubID">>, <<"Link">> >>

SepRow == << <<"-", "-", "-">>, <<"-", "-", "-">>, <<"-", "-", "-">> >>

SepRowShort == << <<"-", "-">>, <<"-", "-">>, <<"-", "-">> >>

RowX ==
    << <<" ", "x", " ", " ">>, <<" ", "xid", " ">>,
       <<" ", "https://github.com", "/", "xid", " ">> >>

RowY == << <<"y">>, <<"yid">>, <<"u">> >>

RowEmptyCell == << <<" ">>, <<"z">>, <<"u">> >>

RowDashy == << <<"a", "-", "-", "-", "b">>, <<"aid">>, <<"u">> >>

Heads ==
    { <<>>, <<Plain>>, <<Marker>>,
      <<Blank, Marker, Blank, NameLine, Blank, MembersLabel>>,
      <<NameLineAscii>>, <<Marker, NameLineBlank>>, <<BarePhrase>>,
      <<Marker, NameLinePipe>> }

TableHeads == { <<>>, <<HeaderRow, SepRow>>, <<HeaderRow2, SepRowShort>> }

RowKinds == {RowX, RowY, RowEmptyCell, RowDashy, SepRow, HeaderRow}

Tails ==
    { <<>>, <<Blank, AccountLine, RepoLine, Blank, TimeLine>>, <<NameLine>>,
      <<Blank, RepoLine>> }

Templates ==
    [head : Heads, thead : TableHeads,
     rows : UNION {[1..n -> RowKinds] : n \in 0..MaxRows}, tail : Tails]

EmptyTemplate == [head |-> <<>>, thead |-> <<>>, rows |-> <<>>, tail |-> <<>>]

RowLine(r) == <<"|">> \o r[1] \o <<"|">> \o r[2] \o <<"|">> \o r[3] \o <<"|">>

RECURSIVE JoinLines(_)
JoinLines(ls) ==
    IF ls = <<>> THEN <<>> ELSE Head(ls) \o <<"\n">> \o JoinLines(Tail(ls))

TableOf(t) == t.thead \o t.rows

Render(t) ==
    JoinLines(t.head)
    \o JoinLines([i \in 1..Len(TableOf(t)) |-> RowLine(TableOf(t)[i])])
    \o JoinLines(t.tail)

CommentIds == {123, 124}

Authors == {"test_user", "user2"}

(***************************************************************************)
(* Specification SpecParse: one call of parse_team_info                    *)
(***************************************************************************)
Pending == [tag |-> "pending", value |-> <<>>, exc |-> ""]

IdleParse ==
    /\ template = EmptyTemplate
    /\ p_body = <<>>
    /\ p_out = Pending

IdleCollect ==
    /\ c_comments = <<>>
    /\ c_i = 0
    /\ c_teams = <<>>
    /\ c_out = Pending

IdleValidate ==
    /\ v_teams = <<>>
    /\ v_min = 0
    /\ v_max = 0
    /\ v_i = 0
    /\ v_names = {}
    /\ v_issues = NewIssues

IdleExport ==
    /\ x_teams = <<>>
    /\ x_min = 0
    /\ x_max = 0
    /\ x_findings = <<>>
    /\ x_csv = <<>>
    /\ x_members_csv = <<>>
    /\ x_json = <<>>
    /\ x_members_json = <<>>
    /\ x_md = <<>>
    /\ x_html = <<>>

\* the switches of main (lines 809-815), none of them given
NoSwitches ==
    [no_validate |-> FALSE, no_csv |-> FALSE, no_json |-> FALSE,
     no_markdown |-> FALSE, no_html |-> FALSE]

IdleMain ==
    /\ m_args = NoSwitches
    /\ m_out = Pending
    /\ dom = <<>>

IdleFetch ==
    /\ f_remote = <<>>
    /\ f_page = 1
    /\ f_log = <<>>
    /\ f_comments = <<>>

\* the body is the text of a template, or None for the empty template
InitParse ==
    /\ pc = "parse"
    /\ template \in Templates
    /\ p_body \in {<<Render(template)>>}
                    \cup (IF template = EmptyTemplate THEN {<<>>} ELSE {})
    /\ p_out = Pending
    /\ IdleCollect
    /\ IdleValidate
    /\ IdleExport
    /\ IdleMain
    /\ IdleFetch

Parse ==
    /\ pc = "parse"
    /\ \E comment_id \in CommentIds, author \in Authors :
          p_out' = parse_team_info(p_body, comment_id, author)
    /\ pc' = "done"
    /\ UNCHANGED <<template, p_body, c_comments, c_i, c_teams, c_out,
                   v_teams, v_min, v_max, v_i, v_names, v_issues>>
    /\ UNCHANGED x_vars
    /\ UNCHANGED <<m_vars, f_vars>>

NextParse == Parse

SpecParse == InitParse /\ [][NextParse]_vars

(***************************************************************************)
(* Specification SpecCollect: collect_team_info (lines 147-166) over the   *)
(* list of comments the fetch returned.  A comment is the dict of the      *)
(* response JSON: id, body (a str or null) and user (an object with a      *)
(* login, or null).                                                        *)
(***************************************************************************)
MaxComments == 3

TemplateBody ==
    Render([head |-> <<Blank, Marker, Blank, NameLine, Blank, MembersLabel>>,
            thead |-> <<HeaderRow, SepRow>>, rows |-> <<RowX, RowY>>,
            tail |-> <<Blank, AccountLine, RepoLine, Blank, TimeLine>>])

ShortBody ==
    Render([head |-> <<NameLineAscii>>, thead |-> <<>>, rows |-> <<RowY>>,
            tail |-> <<>>])

CommentKinds ==
    { [id |-> 123, body |-> <<TemplateBody>>, user |-> <<[login |-> "user1"]>>],
      [id |-> 124, body |-> <<ShortBody>>, user |-> <<[login |-> "user2"]>>],
      [id |-> 125, body |-> <<Plain>>, user |-> <<[login |-> "user3"]>>],
      [id |-> 126, body |-> <<>>, user |-> <<[login |-> "user4"]>>],
      [id |-> 127, body |-> <<ShortBody>>, user |-> <<>>] }

InitCollect ==
    /\ pc = "collect"
    /\ c_comments \in UNION {[1..n -> CommentKinds] : n \in 0..MaxComments}
    /\ c_i = 0
    /\ c_teams = <<>>
    /\ c_out = Pending
    /\ IdleParse
    /\ IdleValidate
    /\ IdleExport
    /\ IdleMain
    /\ IdleFetch

\* one iteration of the for loop of lines 154-163.  The arguments of line
\* 156-158 are evaluated first: comment['user']['login'] raises TypeError on
\* a null user.  Nothing in collect_team_info catches an exception, so one
\* that is raised here or leaves parse_team_info ends the call.
CollectStep ==
    /\ pc = "collect"
    /\ c_i < Len(c_comments)
    /\ LET comment == c_comments[c_i + 1]
           r == IF comment.user = <<>> THEN Raised("TypeError")
                ELSE parse_team_info(comment.body, comment.id,
                                     comment.user[1].login)
       IN  IF r.tag = "raised"
           THEN /\ pc' = "aborted"
                /\ c_out' = r
                /\ UNCHANGED <<c_i, c_teams>>
           ELSE /\ c_teams' = IF r.value # <<>>
                              THEN Append(c_teams, r.value[1]) ELSE c_teams
                /\ c_i' = c_i + 1
                /\ UNCHANGED <<pc, c_out>>
    /\ UNCHANGED <<template, p_body, p_out, c_comments,
                   v_teams, v_min, v_max, v_i, v_names, v_issues>>
    /\ UNCHANGED x_vars
    /\ UNCHANGED <<m_vars, f_vars>>

\* lines 165-166: the loop is over, the list is returned
CollectReturn ==
    /\ pc = "collect"
    /\ c_i = Len(c_comments)
    /\ c_out' = Returned(c_teams)
    /\ pc' = "done"
    /\ UNCHANGED <<template, p_body, p_out, c_comments, c_i, c_teams,
                   v_teams, v_min, v_max, v_i, v_names, v_issues>>
    /\ UNCHANGED x_vars
    /\ UNCHANGED <<m_vars, f_vars>>

NextCollect == CollectStep \/ CollectReturn

SpecCollect == InitCollect /\ [][NextCollect]_vars

(***************************************************************************)
(* Specification SpecValidate: one call of validate_teams                  *)
(***************************************************************************)
MaxTeams == 2

MaxMembers == 1

MemberPool ==
    << TeamMember(<<"x">>, <<"xid">>, <<"https://github.com", "/", "xid">>),
       TeamMember(<<"y">>, <<"yid">>, <<"u">>),
       TeamMember(<<"z">>, <<"zid">>, <<"u">>),
       TeamMember(<<"w">>, <<"wid">>, <<"u">>) >>

MembersOfSize(n) == [i \in 1..n |-> MemberPool[((i - 1) % Len(MemberPool)) + 1]]

TeamNames == {<<>>, <<"T", " ", "A">>, <<"B">>}

RepoUrls == {<<>>, <<"https://github.com", "/", "t">>, <<"https://github.com">>}

TeamInfos ==
    { [team_name |-> n,
       members |-> MembersOfSize(k),
       team_github_account |-> <<"t">>,
       team_repo_url |-> u,
       submission_time |-> <<"2025">>,
       comment_id |-> 123,
       comment_author |-> "user1"] :
      n \in TeamNames, k \in 0..MaxMembers, u \in RepoUrls }

\* min_members and max_members: any int, negative ones too
MemberBounds == (0 - 1)..(MaxMembers + 1)

InitValidate ==
    /\ pc = "validate"
    /\ v_teams \in UNION {[1..n -> TeamInfos] : n \in 0..MaxTeams}
    /\ v_min \in MemberBounds
    /\ v_max \in MemberBounds
    /\ v_i = 0
    /\ v_names = {}
    /\ v_issues = NewIssues
    /\ IdleParse
    /\ IdleCollect
    /\ IdleExport
    /\ IdleMain
    /\ IdleFetch

\* one iteration of the for loop of lines 496-516
ValidateStep ==
    /\ pc = "validate"
    /\ v_i < Len(v_teams)
    /\ LET team == v_teams[v_i + 1]
       IN  /\ v_issues' = validate_one(v_issues, team, v_names, v_min, v_max)
           /\ v_names' = v_names \cup {team.team_name}
    /\ v_i' = v_i + 1
    /\ UNCHANGED <<pc, template, p_body, p_out, c_comments, c_i, c_teams, c_out,
                   v_teams, v_min, v_max>>
    /\ UNCHANGED x_vars
    /\ UNCHANGED <<m_vars, f_vars>>

\* line 518: the loop is over, issues is returned
ValidateReturn ==
    /\ pc = "validate"
    /\ v_i = Len(v_teams)
    /\ pc' = "done"
    /\ UNCHANGED <<template, p_body, p_out, c_comments, c_i, c_teams, c_out,
                   v_teams, v_min, v_max, v_i, v_names, v_issues>>
    /\ UNCHANGED x_vars
    /\ UNCHANGED <<m_vars, f_vars>>

NextValidate == ValidateStep \/ ValidateReturn

SpecValidate == InitValidate /\ [][NextValidate]_vars

(***************************************************************************)
(* Specification SpecExport: a caller that holds a list of teams, has it   *)
(* validated or not, and then calls every export in the order of main      *)
(* (lines 863-891): with the findings of validate_teams as main passes     *)
(* them, or with no findings argument as the tests call the exports.       *)
(***************************************************************************)
MaxExportTeams == 3

MaxTeamSize == 2

\* members whose fields hold a quote, a backslash and a blank
ExportMemberPool ==
    << TeamMember(<<"x", "\"", "q">>, <<"xid">>, <<"https://github.com", "/", "xid">>),
       TeamMember(<<"y", " ", "y">>, <<"y", "\\", "n">>, <<"u">>),
       TeamMember(<<"z">>, <<"zid">>, <<"u", "\\">>),
       TeamMember(<<"w">>, <<"wid">>, <<"u">>) >>

ExportNames == {<<"A">>, <<"B", "\\", "t">>}

\* the team of the i-th comment
ExportTeam(i, name, k) ==
    [team_name |-> name,
     members |-> [m \in 1..k |->
                    ExportMemberPool[((m - 1) % Len(ExportMemberPool)) + 1]],
     team_github_account |-> <<"acct", Digits[i + 1]>>,
     team_repo_url |-> GITHUB_PREFIX \o <<"t">>,
     submission_time |-> <<"2025", "\"", "10", ":", "30", "\"">>,
     comment_id |-> 120 + i,
     comment_author |-> <<"user", Digits[i + 1]>>]

ExportTeamLists ==
    UNION { { [i \in 1..n |-> ExportTeam(i, names[i], sizes[i])] :
              names \in [1..n -> ExportNames],
              sizes \in [1..n -> 0..MaxTeamSize] } :
            n \in 0..MaxExportTeams }

\* (min_members, max_members)
ExportPolicies == {<<1, 1>>}

InitExport ==
    /\ pc = "call_validate"
    /\ x_teams \in ExportTeamLists
    /\ \E p \in ExportPolicies : x_min = p[1] /\ x_max = p[2]
    /\ x_findings = <<>>
    /\ x_csv = <<>>
    /\ x_members_csv = <<>>
    /\ x_json = <<>>
    /\ x_members_json = <<>>
    /\ x_md = <<>>
    /\ x_html = <<>>
    /\ IdleParse
    /\ IdleCollect
    /\ IdleValidate
    /\ IdleMain
    /\ IdleFetch

parse_vars == <<template, p_body, p_out>>

collect_vars == <<c_comments, c_i, c_teams, c_out>>

validate_vars == <<v_teams, v_min, v_max, v_i, v_names, v_issues>>

\* the findings arguments of the exports: None without findings
InvalidNamesArg ==
    IF x_findings = <<>> THEN <<>>
    ELSE <<x_findings[1].member_count_invalid_team_names>>

IssuesArg ==
    IF x_findings = <<>> THEN <<>>
    ELSE <<x_findings[1].member_count_issues>>

\* line 849: validate_teams reads the list
CallValidate ==
    /\ pc = "call_validate"
    /\ x_findings' = <<validate_teams(x_teams, x_min, x_max)>>
    /\ pc' = "call_csv"
    /\ UNCHANGED <<x_teams, x_min, x_max, x_csv, x_members_csv, x_json,
                   x_members_json, x_md, x_html>>
    /\ UNCHANGED <<parse_vars, collect_vars, validate_vars>>
    /\ UNCHANGED <<m_vars, f_vars>>

\* the caller has no findings
NoValidate ==
    /\ pc = "call_validate"
    /\ pc' = "call_csv"
    /\ UNCHANGED <<x_teams, x_min, x_max, x_findings, x_csv, x_members_csv,
                   x_json, x_members_json, x_md, x_html>>
    /\ UNCHANGED <<parse_vars, collect_vars, validate_vars>>
    /\ UNCHANGED <<m_vars, f_vars>>

\* line 866
CallExportCsv ==
    /\ pc = "call_csv"
    /\ LET r == export_to_csv(x_teams, InvalidNamesArg, IssuesArg)
       IN  x_csv' = <<r.file>> /\ x_teams' = r.teams
    /\ pc' = "call_members_csv"
    /\ UNCHANGED <<x_min, x_max, x_findings, x_members_csv, x_json,
                   x_members_json, x_md, x_html>>
    /\ UNCHANGED <<parse_vars, collect_vars, validate_vars>>
    /\ UNCHANGED <<m_vars, f_vars>>

\* line 871
CallExportMembersCsv ==
    /\ pc = "call_members_csv"
    /\ LET r == export_members_to_csv(x_teams)
       IN  x_members_csv' = <<r.file>> /\ x_teams' = r.teams
    /\ pc' = "call_json"
    /\ UNCHANGED <<x_min, x_max, x_findings, x_csv, x_json,
                   x_members_json, x_md, x_html>>
    /\ UNCHANGED <<parse_vars, collect_vars, validate_vars>>
    /\ UNCHANGED <<m_vars, f_vars>>

\* line 877
CallExportJson ==
    /\ pc = "call_json"
    /\ LET r == export_to_json(x_teams)
       IN  x_json' = <<r.file>> /\ x_teams' = r.teams
    /\ pc' = "call_members_json"
    /\ UNCHANGED <<x_min, x_max, x_findings, x_csv, x_members_csv,
                   x_members_json, x_md, x_html>>
    /\ UNCHANGED <<parse_vars, collect_vars, validate_vars>>
    /\ UNCHANGED <<m_vars, f_vars>>

\* line 882
CallExportMembersJson ==
    /\ pc = "call_members_json"
    /\ LET r == export_members_to_json(x_teams)
       IN  x_members_json' = <<r.file>> /\ x_teams' = r.teams
    /\ pc' = "call_markdown"
    /\ UNCHANGED <<x_min, x_max, x_findings, x_csv, x_members_csv, x_json,
                   x_md, x_html>>
    /\ UNCHANGED <<parse_vars, collect_vars, validate_vars>>
    /\ UNCHANGED <<m_vars, f_vars>>

\* line 888
CallExportMarkdown ==
    /\ pc = "call_markdown"
    /\ LET r == export_to_markdown(x_teams, InvalidNamesArg, IssuesArg)
       IN  x_md' = <<r.file>> /\ x_teams' = r.teams
    /\ pc' = "call_html"
    /\ UNCHANGED <<x_min, x_max, x_findings, x_csv, x_members_csv, x_json,
                   x_members_json, x_html>>
    /\ UNCHANGED <<parse_vars, collect_vars, validate_vars>>
    /\ UNCHANGED <<m_vars, f_vars>>

\* line 894
CallExportHtml ==
    /\ pc = "call_html"
    /\ LET r == export_to_html(x_teams, InvalidNamesArg)
       IN  x_html' = <<r.file>> /\ x_teams' = r.teams
    /\ pc' = "exported"
    /\ UNCHANGED <<x_min, x_max, x_findings, x_csv, x_members_csv, x_json,
                   x_members_json, x_md>>
    /\ UNCHANGED <<parse_vars, collect_vars, validate_vars>>
    /\ UNCHANGED <<m_vars, f_vars>>

NextExport ==
    \/ CallValidate
    \/ NoValidate
    \/ CallExportCsv
    \/ CallExportMembersCsv
    \/ CallExportJson
    \/ CallExportMembersJson
    \/ CallExportMarkdown
    \/ CallExportHtml

SpecExport == InitExport /\ [][NextExport]_vars

(***************************************************************************)
(* Claims about parse_team_info                                            *)
(***************************************************************************)
ParseDone == pc = "done" /\ p_out.tag = "returned"

Parsed == p_out.value[1]

\* a table row as the specification classifies it (section 4.1): a separator
\* row has a cell holding a run of dashes, a header row has a known header
\* label as its name or id cell, a member row is neither and has three
\* non-empty cells
RowIsSeparator(r) == \E k \in 1..3 : HasDashRun(strip(r[k]))

RowIsHeader(r) ==
    \/ strip(r[1]) \in {<<"MemberName">>, <<"Name">>}
    \/ strip(r[2]) \in {<<"PersonalGitHubID">>, <<"GitHubID">>}

RowIsMember(r) ==
    /\ \A k \in 1..3 : strip(r[k]) # <<>>
    /\ ~RowIsSeparator(r)
    /\ ~RowIsHeader(r)

TextLines(t) == t.head \o t.tail

PipeFree(t) ==
    \A i \in 1..Len(TextLines(t)) : ~Contains(TextLines(t)[i], "|")

HasNameLine(t) ==
    \E i \in 1..Len(TextLines(t)) :
        TextLines(t)[i] \in {NameLine, NameLineAscii, NameLineBlank, NameLinePipe}

HasValuedNameLine(t) ==
    \E i \in 1..Len(TextLines(t)) : TextLines(t)[i] \in {NameLine, NameLineAscii}

MemberRows(t) == SelectSeq(TableOf(t), RowIsMember)

\* the body follows the submission template: a team-name line with a value,
\* no pipe outside the table, and a table made of header rows, separator rows
\* and at least one member row
FollowsTemplate(t) ==
    /\ HasValuedNameLine(t)
    /\ PipeFree(t)
    /\ \A i \in 1..Len(TableOf(t)) :
          LET r == TableOf(t)[i]
          IN  RowIsSeparator(r) \/ RowIsHeader(r) \/ RowIsMember(r)
    /\ Len(MemberRows(t)) >= 1

ExpectedMembers(t) ==
    [i \in 1..Len(MemberRows(t)) |->
        [name |-> strip(MemberRows(t)[i][1]),
         github_id |-> strip(MemberRows(t)[i][2]),
         github_url |-> strip(MemberRows(t)[i][3])]]

C2_TeamInfoComplete ==
    ParseDone =>
        /\ p_out.value # <<>> =>
              (Parsed.team_name # <<>> /\ Parsed.members # <<>>)
        /\ (p_body # <<>> /\ PipeFree(template) /\ HasNameLine(template)
              /\ Len(MemberRows(template)) = 0) => p_out.value = <<>>
        /\ (p_body # <<>> /\ ~HasNameLine(template)
              /\ Len(MemberRows(template)) >= 1) => p_out.value = <<>>

\* a body with a valued team-name line and a table without any member row
\* has been parsed to None
C2_Witness ==
    /\ ParseDone
    /\ HasValuedNameLine(template)
    /\ PipeFree(template)
    /\ template.thead = <<HeaderRow, SepRow>>
    /\ template.rows = <<RowEmptyCell>>
    /\ p_out.value = <<>>

\* C3: a body that contains neither the submission marker phrase nor the
\* team-name phrase is parsed to None, whatever else it contains.
C3_NoMarkerNoTeam ==
    (pc = "done" /\ p_body # <<>>
        /\ ~Contains(p_body[1], "Submit") /\ ~Contains(p_body[1], "TeamName"))
        => p_out = Returned(<<>>)

\* a body without either phrase but with a complete member table and the
\* other labeled lines has been parsed to None
C3_Witness ==
    /\ pc = "done"
    /\ p_body # <<>>
    /\ ~Contains(p_body[1], "Submit") /\ ~Contains(p_body[1], "TeamName")
    /\ template.thead = <<HeaderRow, SepRow>>
    /\ template.rows = <<RowX, RowY>>
    /\ Contains(p_body[1], "TeamAccount")
    /\ p_out = Returned(<<>>)

IsDashes(c) == c # <<>> /\ \A i \in 1..Len(c) : c[i] = "-"

\* C4: no extracted member comes from a row of dashes or from a row whose
\* cells are the known header labels.
C4_NoHeaderOrSeparatorMember ==
    (ParseDone /\ p_out.value # <<>>) =>
        \A i \in 1..Len(Parsed.members) :
            LET m == Parsed.members[i]
            IN  /\ ~(IsDashes(m.name) /\ IsDashes(m.github_id)
                       /\ IsDashes(m.github_url))
                /\ ~(m.name \in {<<"MemberName">>, <<"Name">>}
                       /\ m.github_id \in {<<"PersonalGitHubID">>, <<"GitHubID">>})

(***************************************************************************)
(* Claims about collect_team_info                                          *)
(***************************************************************************)
\* the comments that yield a submission when extracted on their own
Extractable(comment) ==
    /\ comment.user # <<>>
    /\ parse_team_info(comment.body, comment.id, comment.user[1].login).tag
          = "returned"
    /\ parse_team_info(comment.body, comment.id, comment.user[1].login).value
          # <<>>

\* C5: an exception raised while extracting one comment is caught and the
\* comment treated as absent; collect_team_info never aborts and still
\* processes every other comment.
C5_ExtractionFailureIsolated ==
    /\ pc # "aborted"
    /\ pc = "done" =>
          /\ c_out.tag = "returned"
          /\ Len(c_out.value)
               = Cardinality({i \in 1..Len(c_comments) : Extractable(c_comments[i])})

(***************************************************************************)
(* Claims about validate_teams                                             *)
(***************************************************************************)
ValidateDone == pc = "done" /\ v_i = Len(v_teams)

\* the team names of the submissions at the positions P, in input order
NamesAt(ts, P) ==
    LET F[i \in 0..Len(ts)] ==
            IF i = 0 THEN <<>>
            ELSE IF i \in P THEN Append(F[i-1], ts[i].team_name) ELSE F[i-1]
    IN  F[Len(ts)]

TeamsOf(entries) == [i \in 1..Len(entries) |-> entries[i].team]

Repeats ==
    {i \in 1..Len(v_teams) :
        \E j \in 1..(i - 1) : v_teams[j].team_name = v_teams[i].team_name}

OutOfRange ==
    {i \in 1..Len(v_teams) :
        Len(v_teams[i].members) < v_min \/ Len(v_teams[i].members) > v_max}

BadUrl ==
    {i \in 1..Len(v_teams) :
        LET u == v_teams[i].team_repo_url
        IN  u # <<>> /\ ~(Len(u) >= 2 /\ u[1] = "https://github.com" /\ u[2] = "/")}

Incomplete ==
    {i \in 1..Len(v_teams) :
        v_teams[i].team_name = <<>> \/ Len(v_teams[i].members) = 0}

C7_SizeViolationsExact ==
    ValidateDone =>
        /\ v_issues.member_count_invalid_team_names
             = {v_teams[i].team_name : i \in OutOfRange}
        /\ TeamsOf(v_issues.member_count_issues) = NamesAt(v_teams, OutOfRange)

\* min > max: a team below min and a team at min (above max) are both flagged
C7_Witness ==
    /\ ValidateDone
    /\ v_min > v_max
    /\ Len(v_teams) = 2
    /\ v_teams[1].team_name # v_teams[2].team_name
    /\ Len(v_teams[1].members) < v_min
    /\ Len(v_teams[2].members) = v_min
    /\ Len(v_issues.member_count_issues) = 2
    /\ v_issues.member_count_issues[1].kind = "too_few"
    /\ v_issues.member_count_issues[2].kind = "too_many"

\* C8: invalid_urls gets an entry for a submission exactly when its
\* team_repo_url is non-empty and does not begin with https://github.com/.
C8_UrlShape ==
    ValidateDone => TeamsOf(v_issues.invalid_urls) = NamesAt(v_teams, BadUrl)

\* an empty URL and a URL that stops short of the prefix: only the second is
\* flagged
C8_Witness ==
    /\ ValidateDone
    /\ Len(v_teams) = 2
    /\ v_teams[1].team_repo_url = <<>>
    /\ v_teams[2].team_repo_url = <<"https://github.com">>
    /\ v_teams[1].team_name # v_teams[2].team_name
    /\ TeamsOf(v_issues.invalid_urls) = <<v_teams[2].team_name>>

\* C9: missing_info gets an entry for a submission exactly when its team
\* name is empty or its member list is empty, whatever the other checks
\* report.
C9_MissingInfo ==
    ValidateDone =>
        TeamsOf(v_issues.missing_info) = NamesAt(v_teams, Incomplete)

\* a named team without members, within the size bounds and with a valid
\* URL, is flagged as incomplete and by no other check
C9_Witness ==
    /\ ValidateDone
    /\ Len(v_teams) = 1
    /\ v_teams[1].team_name # <<>>
    /\ v_teams[1].members = <<>>
    /\ v_issues.missing_info = <<[team |-> v_teams[1].team_name]>>
    /\ v_issues.member_count_issues = <<>>
    /\ v_issues.invalid_urls = <<>>
    /\ v_issues.duplicate_teams = <<>>

Compliant ==
    /\ \A i \in 1..Len(v_teams) :
          /\ v_teams[i].team_name # <<>>
          /\ Len(v_teams[i].members) >= v_min
          /\ Len(v_teams[i].members) <= v_max
          /\ LET u == v_teams[i].team_repo_url
             IN  u = <<>> \/ (Len(u) >= 2 /\ u[1] = "https://github.com" /\ u[2] = "/")
    /\ \A i, j \in 1..Len(v_teams) :
          i # j => v_teams[i].team_name # v_teams[j].team_name

\* C10 as amended: when all team names are non-empty and pairwise distinct,
\* every member list is non-empty, every member count lies in [min, max] and
\* every repository URL is empty or begins with https://github.com/, every
\* category of the finding set is empty, the size-violation name set
\* included.
C10_CompliantNonEmptyNoFindings ==
    (ValidateDone /\ Compliant
        /\ \A i \in 1..Len(v_teams) : v_teams[i].members # <<>>) =>
        /\ v_issues.missing_info = <<>>
        /\ v_issues.duplicate_teams = <<>>
        /\ v_issues.invalid_urls = <<>>
        /\ v_issues.member_count_issues = <<>>
        /\ v_issues.member_count_invalid_team_names = {}

\* C10 as stated, without the condition that the member lists are non-empty
C10_CompliantNoFindings ==
    (ValidateDone /\ Compliant) =>
        /\ v_issues.missing_info = <<>>
        /\ v_issues.duplicate_teams = <<>>
        /\ v_issues.invalid_urls = <<>>
        /\ v_issues.member_count_issues = <<>>
        /\ v_issues.member_count_invalid_team_names = {}

\* two compliant teams with members, one with a GitHub URL and one without,
\* have been validated without a finding
C10_Witness ==
    /\ ValidateDone
    /\ Compliant
    /\ Len(v_teams) = 2
    /\ v_teams[1].members # <<>>
    /\ v_teams[2].members # <<>>
    /\ v_teams[1].team_repo_url = <<"https://github.com", "/", "t">>
    /\ v_teams[2].team_repo_url = <<>>
    /\ v_issues = NewIssues

(***************************************************************************)
(* Claims about the pipeline and the exports                               *)
(***************************************************************************)
\* the order the sorted tables give to the caller's list
SortedTeams == sort_teams_by_member_count(x_teams)

\* C11: no step of the pipeline changes the caller's list: validate_teams,
\* the sort and every export leave the list with the same teams in the same
\* order with the same field values, so every export is handed the list the
\* validator was handed.
C11_CallerListUnchanged == [][x_teams' = x_teams]_vars

\* every export has run on a validated list that the sort reorders
C11_Witness ==
    /\ pc = "exported"
    /\ x_findings # <<>>
    /\ SortedTeams # x_teams

\* the five keys of the dict of lines 486-492
FindingKeys ==
    {"missing_info", "duplicate_teams", "invalid_urls", "member_count_issues",
     "member_count_invalid_team_names"}

\* C12: validate_teams never raises: for every list of teams (empty names,
\* empty member lists, malformed URLs) and all integers min and max, the call
\* is in its loop and can go on, or has returned, and its findings hold all
\* five keys.
C12_ValidateTotal ==
    /\ pc \in {"validate", "done"}
    /\ DOMAIN v_issues = FindingKeys
    /\ pc = "validate" => ENABLED NextValidate

\* the call returned on a list with an empty name, an empty member list and a
\* malformed URL, for a negative maximum below the minimum
C12_Witness ==
    /\ ValidateDone
    /\ \E i \in 1..Len(v_teams) :
          /\ v_teams[i].team_name = <<>>
          /\ v_teams[i].members = <<>>
          /\ v_teams[i].team_repo_url = <<"https://github.com">>
    /\ v_max < 0
    /\ v_max < v_min

\* the position in the caller's list of the team with this account (the
\* accounts of the teams of a list differ)
PositionOf(account) ==
    CHOOSE k \in 1..Len(x_teams) : x_teams[k].team_github_account = account

\* the rows of one kind of a written file
RowsOf(rows, kind) == SelectSeq(rows, LAMBDA r : r.kind = kind)

\* the account cells of the rows of one kind: the teams of a table, in its order
AccountsOf(rows, kind, cell) ==
    [i \in 1..Len(RowsOf(rows, kind)) |-> RowsOf(rows, kind)[i].cells[cell]]

\* the team order of each written table that is sorted
CsvTeamOrder == AccountsOf(x_csv[1], "team", 5)

MarkdownTeamOrder == AccountsOf(x_md[1], "team", 5)

CompactTeamOrder == AccountsOf(x_html[1].sections[1].rows, "team", 5)

FullTableTeamOrder ==
    AccountsOf(x_html[1].sections[2].rows, "team", 3 + 3 * MEMBER_SLOTS)

CardsTeamOrder == AccountsOf(x_html[1].sections[3].rows, "card", 3)

SortedTeamTables ==
    (IF x_csv # <<>> THEN {CsvTeamOrder} ELSE {})
    \cup (IF x_md # <<>> THEN {MarkdownTeamOrder} ELSE {})
    \cup (IF x_html # <<>>
          THEN {CompactTeamOrder, FullTableTeamOrder, CardsTeamOrder} ELSE {})

\* order lists every position of the caller's list once, member counts never
\* growing, equal counts in input order
StableDescending(order) ==
    /\ Len(order) = Len(x_teams)
    /\ \A k \in 1..Len(x_teams) : \E i \in 1..Len(order) : order[i] = k
    /\ \A i, j \in 1..Len(order) :
          i < j =>
            /\ Len(x_teams[order[i]].members) >= Len(x_teams[order[j]].members)
            /\ Len(x_teams[order[i]].members) = Len(x_teams[order[j]].members)
                 => order[i] < order[j]

\* C13: the output of sort_teams_by_member_count, and the team order of every
\* sorted table that has been written, is a permutation of the input with
\* member counts non-increasing in which teams of equal member count keep
\* their input order.
C13_StableDescendingSort ==
    /\ StableDescending([i \in 1..Len(SortedTeams) |->
                           PositionOf(SortedTeams[i].team_github_account)])
    /\ \A t \in SortedTeamTables :
          /\ StableDescending([i \in 1..Len(t) |-> PositionOf(t[i])])
          /\ t = [i \in 1..Len(SortedTeams) |-> SortedTeams[i].team_github_account]

\* all tables are written for two teams of one member followed by a larger team
C13_Witness ==
    /\ pc = "exported"
    /\ Len(x_teams) = 3
    /\ Len(x_teams[1].members) = 1
    /\ Len(x_teams[2].members) = 1
    /\ Len(x_teams[3].members) = 2
    /\ CsvTeamOrder = <<x_teams[3].team_github_account,
                        x_teams[1].team_github_account,
                        x_teams[2].team_github_account>>

\* the member counts that occur in the caller's list
TeamSizes == {Len(x_teams[i].members) : i \in 1..Len(x_teams)}

TeamsOfSize(n) == Cardinality({i \in 1..Len(x_teams) : Len(x_teams[i].members) = n})

\* the k-th largest member count
SizesDescending ==
    [k \in 1..Cardinality(TeamSizes) |->
        CHOOSE n \in TeamSizes : Cardinality({m \in TeamSizes : m > n}) = k - 1]

RECURSIVE SumOf(_)
SumOf(numbers) == IF numbers = <<>> THEN 0 ELSE Head(numbers) + SumOf(Tail(numbers))

\* the statistics lines of each written report: the Markdown file, the dense
\* view and the full table view
Summaries ==
    (IF x_md # <<>> THEN {x_md[1]} ELSE {})
    \cup (IF x_html # <<>>
          THEN {x_html[1].sections[1].rows, x_html[1].sections[2].rows}
          ELSE {})

\* the one cell of the one row of this kind
StatOf(rows, kind) == RowsOf(rows, kind)[1].cells[1]

\* C14: every summary written to the Markdown report and the HTML views
\* gives the number of teams, the sum of the member counts, and one entry per
\* distinct member count with the number of teams of that size, largest size
\* first; the numbers of teams of the entries add up to the number of teams.
C14_SummaryCounts ==
    \A rows \in Summaries :
       /\ Len(RowsOf(rows, "total_teams")) = 1
       /\ Len(RowsOf(rows, "total_members")) = 1
       /\ Len(RowsOf(rows, "distribution")) = 1
       /\ StatOf(rows, "total_teams") = str(Len(x_teams))
       /\ StatOf(rows, "total_members") =
             str(SumOf([i \in 1..Len(x_teams) |-> Len(x_teams[i].members)]))
       /\ StatOf(rows, "distribution") =
             join(<<",", " ">>,
                  [k \in 1..Len(SizesDescending) |->
                     size_entry(SizesDescending[k], TeamsOfSize(SizesDescending[k]))])
       /\ SumOf([k \in 1..Len(SizesDescending) |-> TeamsOfSize(SizesDescending[k])])
             = Len(x_teams)

\* the reports are written for three teams of two sizes, the smaller size first
C14_Witness ==
    /\ pc = "exported"
    /\ Len(x_teams) = 3
    /\ Cardinality(TeamSizes) = 2
    /\ Len(x_teams[1].members) < Len(x_teams[3].members)
    /\ StatOf(x_md[1], "total_teams") = <<"3">>

\* the sum of the member counts of the caller's list
MemberTotal == SumOf([i \in 1..Len(x_teams) |-> Len(x_teams[i].members)])

\* C15: in the JSON team export total_teams is the number of teams given and
\* total_members is the sum of the lengths of the member lists of the teams
\* of the same document; the member-level JSON export's total_members is the
\* same sum.
C15_JsonTotals ==
    /\ x_json # <<>> =>
          LET data == json_load(x_json[1])
          IN  /\ data.total_teams = Len(x_teams)
              /\ data.total_teams = Len(data.teams)
              /\ data.total_members =
                   SumOf([i \in 1..Len(data.teams) |-> Len(data.teams[i].members)])
              /\ data.total_members = MemberTotal
    /\ x_members_json # <<>> =>
          /\ json_loads_int(x_members_json[1].total_members) = MemberTotal
          /\ Len(x_members_json[1].members) = MemberTotal

\* both JSON files are written for teams whose member total is not their number
C15_Witness ==
    /\ x_json # <<>>
    /\ x_members_json # <<>>
    /\ Len(x_teams) = 3
    /\ MemberTotal = 5
    /\ json_load(x_json[1]).total_members = 5

\* the teams of the member rows of each written member table, row by row
MemberCsvOrder == AccountsOf(x_members_csv[1], "member", 6)

MarkdownMemberOrder == AccountsOf(x_md[1], "member", 6)

CompactMemberOrder == AccountsOf(x_html[1].sections[1].rows, "member", 6)

FullTableMemberOrder == AccountsOf(x_html[1].sections[2].rows, "member", 6)

WrittenMemberTables ==
    (IF x_members_csv # <<>> THEN {MemberCsvOrder} ELSE {})
    \cup (IF x_md # <<>> THEN {MarkdownMemberOrder} ELSE {})
    \cup (IF x_html # <<>> THEN {CompactMemberOrder, FullTableMemberOrder} ELSE {})

\* the member counts of the teams of the rows never grow down the table
CountsNonIncreasing(accounts) ==
    \A i, j \in 1..Len(accounts) :
       i < j => Len(x_teams[PositionOf(accounts[i])].members)
                  >= Len(x_teams[PositionOf(accounts[j])].members)

\* C16: the JSON team export lists the teams in input order, and every other
\* written table (team CSV, member CSV, Markdown tables, HTML views) is
\* ordered by member count, descending.
C16_OnlyJsonKeepsInputOrder ==
    /\ x_json # <<>> =>
          [i \in 1..Len(x_json[1].teams) |->
              json_load(x_json[1]).teams[i].team_github_account]
          = [i \in 1..Len(x_teams) |-> x_teams[i].team_github_account]
    /\ \A t \in SortedTeamTables \cup WrittenMemberTables : CountsNonIncreasing(t)

\* C17: round trip: the document export_to_json wrote, parsed back, has a
\* teams list equal to the list given, field by field: team_name, the members
\* in order with name, github_id and github_url, team_github_account,
\* team_repo_url, submission_time, comment_id and comment_author.
C17_JsonRoundTrip ==
    x_json # <<>> =>
       LET loaded == json_load(x_json[1]).teams
       IN  /\ Len(loaded) = Len(x_teams)
           /\ \A i \in 1..Len(x_teams) :
                 /\ loaded[i].team_name = x_teams[i].team_name
                 /\ Len(loaded[i].members) = Len(x_teams[i].members)
                 /\ \A m \in 1..Len(x_teams[i].members) :
                       /\ loaded[i].members[m].name = x_teams[i].members[m].name
                       /\ loaded[i].members[m].github_id
                            = x_teams[i].members[m].github_id
                       /\ loaded[i].members[m].github_url
                            = x_teams[i].members[m].github_url
                 /\ loaded[i].team_github_account = x_teams[i].team_github_account
                 /\ loaded[i].team_repo_url = x_teams[i].team_repo_url
                 /\ loaded[i].submission_time = x_teams[i].submission_time
                 /\ loaded[i].comment_id = x_teams[i].comment_id
                 /\ loaded[i].comment_author = x_teams[i].comment_author

\* the file is written for a team whose name holds a backslash and whose
\* members hold a quote and a backslash; the file holds them escaped
C17_Witness ==
    /\ x_json # <<>>
    /\ \E i \in 1..Len(x_teams) :
          /\ x_teams[i].team_name = <<"B", "\\", "t">>
          /\ Len(x_teams[i].members) = 2
          /\ x_json[1].teams[i].team_name = <<"\"", "B", "\\", "\\", "t", "\"">>
          /\ x_json[1].teams[i].members[1].name
               = <<"\"", "x", "\\", "\"", "q", "\"">>
          /\ x_json[1].teams[i].comment_id = <<"1", "2", Digits[i + 1]>>

\* the findings the caller passed to the exports: nothing without findings
InvalidNamesPassed ==
    IF x_findings = <<>> THEN {}
    ELSE x_findings[1].member_count_invalid_team_names

IssuesPassed ==
    IF x_findings = <<>> THEN <<>> ELSE x_findings[1].member_count_issues

\* the written files that take the findings: the team CSV and the Markdown report
MarkedFiles ==
    (IF x_csv # <<>> THEN {x_csv[1]} ELSE {})
    \cup (IF x_md # <<>> THEN {x_md[1]} ELSE {})

Marked(cell) == cell # <<>> /\ cell[Len(cell)] = WARN_MARK[1]

IndexOf(rows, kind) == SetMin({i \in 1..Len(rows) : rows[i].kind = kind})

\* C18: in the team CSV and the Markdown team table the name cell of a team
\* ends with the warning marker exactly when the team's name is in the set of
\* names passed in, and the warning block (its title and one line per size
\* issue) is written, in front of the team table, exactly when the list of
\* size issues passed in is not empty; with no findings passed there is no
\* marker and no warning block.
C18_MarkerAndWarningBlock ==
    \A rows \in MarkedFiles :
       LET teams == RowsOf(rows, "team")
       IN  /\ Len(teams) = Len(SortedTeams)
           /\ \A i \in 1..Len(teams) :
                 /\ Marked(teams[i].cells[2])
                      <=> SortedTeams[i].team_name \in InvalidNamesPassed
                 /\ teams[i].cells[2] \in
                      {SortedTeams[i].team_name, SortedTeams[i].team_name \o WARN_MARK}
           /\ Len(RowsOf(rows, "warning_title")) = (IF IssuesPassed # <<>> THEN 1 ELSE 0)
           /\ RowsOf(rows, "warning") =
                 [i \in 1..Len(IssuesPassed) |->
                     Row("warning", <<issue_text(IssuesPassed[i])>>)]
           /\ IssuesPassed # <<>> =>
                 /\ IndexOf(rows, "warning_title") < IndexOf(rows, "warning")
                 /\ \A i \in 1..Len(rows) :
                       rows[i].kind = "warning" => i < IndexOf(rows, "team_header")
           /\ x_findings = <<>> =>
                 /\ \A i \in 1..Len(teams) : ~Marked(teams[i].cells[2])
                 /\ \A i \in 1..Len(rows) :
                       rows[i].kind \notin {"warning_title", "warning"}

\* both files are written with findings that name one of two teams
C18_Witness ==
    /\ x_csv # <<>>
    /\ x_md # <<>>
    /\ x_findings # <<>>
    /\ Len(IssuesPassed) = 1
    /\ \E i, j \in 1..Len(SortedTeams) :
          /\ Marked(RowsOf(x_md[1], "team")[i].cells[2])
          /\ ~Marked(RowsOf(x_csv[1], "team")[j].cells[2])

\* the member rows of a table as (sequence number, member name, team account)
MemberKeys(rows) ==
    [i \in 1..Len(RowsOf(rows, "member")) |->
        << RowsOf(rows, "member")[i].cells[1],
           RowsOf(rows, "member")[i].cells[3],
           RowsOf(rows, "member")[i].cells[6] >>]

WrittenMemberKeys ==
    (IF x_members_csv # <<>> THEN {MemberKeys(x_members_csv[1])} ELSE {})
    \cup (IF x_md # <<>> THEN {MemberKeys(x_md[1])} ELSE {})
    \cup (IF x_html # <<>>
          THEN {MemberKeys(x_html[1].sections[1].rows),
                MemberKeys(x_html[1].sections[2].rows)}
          ELSE {})

\* C19: for one list of teams the member table has the same rows in the same
\* order with the same sequence numbers in the member CSV, the Markdown
\* report and the HTML views, and the team table has the same team order in
\* the team CSV, the Markdown report and the HTML views.
C19_SameOrderAcrossFormats ==
    /\ Cardinality(WrittenMemberKeys) <= 1
    /\ Cardinality(SortedTeamTables) <= 1

\* the position of a view's button in the toggle bar
ButtonIndex(html, view) ==
    CHOOSE i \in 1..Len(html.buttons) : html.buttons[i].view = view

\* C20: in the interactive document as generated the dense view is the one
\* shown: the compact-view section and the compact button are the only
\* section and the only button with the active class, the table and cards
\* sections are inactive, and the compact button comes before the full-table
\* button.
C20_CompactViewIsDefault ==
    x_html # <<>> =>
       LET html == x_html[1]
       IN  /\ {html.sections[i].id : i \in 1..Len(html.sections)}
                = {"compact-view", "table-view", "cards-view"}
           /\ \A i \in 1..Len(html.sections) :
                 html.sections[i].active <=> html.sections[i].id = "compact-view"
           /\ \A i \in 1..Len(html.buttons) :
                 html.buttons[i].active <=> html.buttons[i].view = "compact"
           /\ \E i \in 1..Len(html.buttons) : html.buttons[i].view = "compact"
           /\ ButtonIndex(html, "compact") < ButtonIndex(html, "table")

\* the document is written for two teams and its dense view holds both
C20_Witness ==
    /\ x_html # <<>>
    /\ Len(x_teams) = 2
    /\ x_html[1].sections[1].id = "compact-view"
    /\ Len(RowsOf(x_html[1].sections[1].rows, "team")) = 2

(***************************************************************************)
(* main (lines 798-946) from the call of collect_team_info on, and the     *)
(* report it opens in the browser                                          *)
(***************************************************************************)
MaxMainTeams == 1

MaxMainSize == 4

\* line 807: default of --min-members
min_members_default == 3

\* line 808: default of --max-members
max_members_default == 4

\* lines 809-815: every combination of the switches
MainArgs ==
    [no_validate : BOOLEAN, no_csv : BOOLEAN, no_json : BOOLEAN,
     no_markdown : BOOLEAN, no_html : BOOLEAN]

\* line 841: what collect_team_info returned
MainTeamLists ==
    UNION { { [i \in 1..n |-> ExportTeam(i, <<"A">>, sizes[i])] :
              sizes \in [1..n -> (MaxMainSize - 2)..MaxMainSize] } :
            n \in 0..MaxMainTeams }

InitMain ==
    /\ pc = "main_collected"
    /\ x_teams \in MainTeamLists
    /\ m_args \in MainArgs
    /\ m_out = Pending
    /\ dom = <<>>
    /\ x_min = min_members_default
    /\ x_max = max_members_default
    /\ x_findings = <<>>
    /\ x_csv = <<>>
    /\ x_members_csv = <<>>
    /\ x_json = <<>>
    /\ x_members_json = <<>>
    /\ x_md = <<>>
    /\ x_html = <<>>
    /\ IdleParse
    /\ IdleCollect
    /\ IdleValidate
    /\ IdleFetch

main_frame == <<parse_vars, collect_vars, validate_vars, f_vars, m_args>>

\* a main without the test of lines 843-845
MainNoTeams_goes_on ==
    /\ pc = "main_collected"
    /\ x_teams = <<>>
    /\ x_findings' = <<validate_teams(x_teams, x_min, x_max)>>
    /\ pc' = "main_csv"
    /\ UNCHANGED <<x_teams, x_min, x_max, x_csv, x_members_csv, x_json,
                   x_members_json, x_md, x_html>>
    /\ UNCHANGED <<m_out, dom, main_frame>>

\* lines 843-845: if not teams: return
MainNoTeams ==
    /\ pc = "main_collected"
    /\ x_teams = <<>>
    /\ m_out' = Returned(<<>>)
    /\ pc' = "main_returned"
    /\ UNCHANGED <<x_vars, dom, main_frame>>

\* lines 848-849
MainValidate ==
    /\ pc = "main_collected"
    /\ x_teams # <<>>
    /\ ~m_args.no_validate
    /\ x_findings' = <<validate_teams(x_teams, x_min, x_max)>>
    /\ pc' = "main_csv"
    /\ UNCHANGED <<x_teams, x_min, x_max, x_csv, x_members_csv, x_json,
                   x_members_json, x_md, x_html>>
    /\ UNCHANGED <<m_out, dom, main_frame>>

\* lines 855-856: the local issues stays unbound
MainSkipValidate ==
    /\ pc = "main_collected"
    /\ x_teams # <<>>
    /\ m_args.no_validate
    /\ pc' = "main_csv"
    /\ UNCHANGED <<x_vars, m_out, dom, main_frame>>

\* the ifs of lines 865, 876, 887 and 893 with their switch set
MainSkipFormat ==
    /\ \/ pc = "main_csv" /\ m_args.no_csv /\ pc' = "main_json"
       \/ pc = "main_json" /\ m_args.no_json /\ pc' = "main_markdown"
       \/ pc = "main_markdown" /\ m_args.no_markdown /\ pc' = "main_html"
       \/ pc = "main_html" /\ m_args.no_html /\ pc' = "main_done"
    /\ UNCHANGED <<x_vars, m_out, dom, main_frame>>

\* lines 867, 889 and 895 evaluate issues[...] before the call
ReadsIssues ==
    \/ pc = "main_csv" /\ ~m_args.no_csv
    \/ pc = "main_markdown" /\ ~m_args.no_markdown
    \/ pc = "main_html" /\ ~m_args.no_html

\* the statements of lines 867-895 that open a file for writing
WritesFile ==
    \/ ReadsIssues
    \/ pc = "main_members_csv"
    \/ pc = "main_json" /\ ~m_args.no_json
    \/ pc = "main_members_json"

\* lines 867, 889, 895: issues was never assigned
MainIssuesUnbound ==
    /\ ReadsIssues
    /\ x_findings = <<>>
    /\ m_out' = Raised("UnboundLocalError")
    /\ pc' = "main_raised"
    /\ UNCHANGED <<x_vars, dom, main_frame>>

\* lines 173, 201, 227, 256, 273, 567: open(filename, 'w') fails, and main
\* has no handler around lines 865-896
MainWriteFails ==
    /\ WritesFile
    /\ ReadsIssues => x_findings # <<>>
    /\ m_out' = Raised("OSError")
    /\ pc' = "main_raised"
    /\ UNCHANGED <<x_vars, dom, main_frame>>

\* line 867
MainExportCsv ==
    /\ pc = "main_csv"
    /\ ~m_args.no_csv
    /\ x_findings # <<>>
    /\ LET r == export_to_csv(x_teams, InvalidNamesArg, IssuesArg)
       IN  x_csv' = <<r.file>> /\ x_teams' = r.teams
    /\ pc' = "main_members_csv"
    /\ UNCHANGED <<x_min, x_max, x_findings, x_members_csv, x_json,
                   x_members_json, x_md, x_html>>
    /\ UNCHANGED <<m_out, dom, main_frame>>

\* line 872
MainExportMembersCsv ==
    /\ pc = "main_members_csv"
    /\ LET r == export_members_to_csv(x_teams)
       IN  x_members_csv' = <<r.file>> /\ x_teams' = r.teams
    /\ pc' = "main_json"
    /\ UNCHANGED <<x_min, x_max, x_findings, x_csv, x_json,
                   x_members_json, x_md, x_html>>
    /\ UNCHANGED <<m_out, dom, main_frame>>

\* line 878
MainExportJson ==
    /\ pc = "main_json"
    /\ ~m_args.no_json
    /\ LET r == export_to_json(x_teams)
       IN  x_json' = <<r.file>> /\ x_teams' = r.teams
    /\ pc' = "main_members_json"
    /\ UNCHANGED <<x_min, x_max, x_findings, x_csv, x_members_csv,
                   x_members_json, x_md, x_html>>
    /\ UNCHANGED <<m_out, dom, main_frame>>

\* line 883
MainExportMembersJson ==
    /\ pc = "main_members_json"
    /\ LET r == export_members_to_json(x_teams)
       IN  x_members_json' = <<r.file>> /\ x_teams' = r.teams
    /\ pc' = "main_markdown"
    /\ UNCHANGED <<x_min, x_max, x_findings, x_csv, x_members_csv, x_json,
                   x_md, x_html>>
    /\ UNCHANGED <<m_out, dom, main_frame>>

\* line 889
MainExportMarkdown ==
    /\ pc = "main_markdown"
    /\ ~m_args.no_markdown
    /\ x_findings # <<>>
    /\ LET r == export_to_markdown(x_teams, InvalidNamesArg, IssuesArg)
       IN  x_md' = <<r.file>> /\ x_teams' = r.teams
    /\ pc' = "main_html"
    /\ UNCHANGED <<x_min, x_max, x_findings, x_csv, x_members_csv, x_json,
                   x_members_json, x_html>>
    /\ UNCHANGED <<m_out, dom, main_frame>>

\* line 895
MainExportHtml ==
    /\ pc = "main_html"
    /\ ~m_args.no_html
    /\ x_findings # <<>>
    /\ LET r == export_to_html(x_teams, InvalidNamesArg)
       IN  x_html' = <<r.file>> /\ x_teams' = r.teams
    /\ pc' = "main_done"
    /\ UNCHANGED <<x_min, x_max, x_findings, x_csv, x_members_csv, x_json,
                   x_members_json, x_md>>
    /\ UNCHANGED <<m_out, dom, main_frame>>

\* lines 936-946: main falls off its end
MainReturn ==
    /\ pc = "main_done"
    /\ m_out' = Returned(<<>>)
    /\ pc' = "main_returned"
    /\ UNCHANGED <<x_vars, dom, main_frame>>

\* the classes of the page as written: lines 327-347
page_classes(html) ==
    [buttons |-> html.buttons,
     sections |-> [i \in 1..Len(html.sections) |->
                     [id |-> html.sections[i].id,
                      active |-> html.sections[i].active]]]

\* lines 897-934: the browser loads the report; no button was clicked yet
LoadPage ==
    /\ x_html # <<>>
    /\ dom = <<>>
    /\ dom' = <<[page |-> page_classes(x_html[1]), clicked |-> <<>>]>>
    /\ UNCHANGED <<pc, x_vars, m_out, main_frame>>

\* a switchView that adds the class without removing it elsewhere
switchView_add_only(page, view) ==
    [buttons |-> [i \in 1..Len(page.buttons) |->
                    [view |-> page.buttons[i].view,
                     active |-> page.buttons[i].active
                                \/ page.buttons[i].view = view]],
     sections |-> [i \in 1..Len(page.sections) |->
                     [id |-> page.sections[i].id,
                      active |-> page.sections[i].active
                                 \/ page.sections[i].id = view \o "-view"]]]

\* lines 760-772
switchView(page, view) ==
    LET btn == IF view = "compact" THEN 1
               ELSE IF view = "table" THEN 2
               ELSE IF view = "cards" THEN 3 ELSE 0
    IN  [buttons |-> [i \in 1..Len(page.buttons) |->
                        [view |-> page.buttons[i].view, active |-> i = btn]],
         sections |-> [i \in 1..Len(page.sections) |->
                         [id |-> page.sections[i].id,
                          active |-> page.sections[i].id = view \o "-view"]]]

\* lines 328-330: the onclick of a button
SwitchView ==
    /\ dom # <<>>
    /\ \E view \in {"compact", "table", "cards"} :
           dom' = <<[page |-> switchView(dom[1].page, view),
                     clicked |-> <<view>>]>>
    /\ UNCHANGED <<pc, x_vars, m_out, main_frame>>

NextMain ==
    \/ MainNoTeams
    \/ MainValidate
    \/ MainSkipValidate
    \/ MainSkipFormat
    \/ MainIssuesUnbound
    \/ MainWriteFails
    \/ MainExportCsv
    \/ MainExportMembersCsv
    \/ MainExportJson
    \/ MainExportMembersJson
    \/ MainExportMarkdown
    \/ MainExportHtml
    \/ MainReturn
    \/ LoadPage
    \/ SwitchView

SpecMain == InitMain /\ [][NextMain]_vars

(***************************************************************************)
(* Claims about main, the fetch of the comments and the report             *)
(***************************************************************************)
MainArtifacts == <<x_csv, x_members_csv, x_json, x_members_json, x_md, x_html>>

NoArtifacts == \A i \in 1..Len(MainArtifacts) : MainArtifacts[i] = <<>>

\* C21: when collect_team_info yields no submission, main never validates
\* and never writes a file, whatever the switches: it only returns.
C21_EmptyResultWritesNothing ==
    x_teams = <<>>
        => /\ pc \in {"main_collected", "main_returned"}
           /\ x_findings = <<>>
           /\ NoArtifacts
           /\ m_out \in {Pending, Returned(<<>>)}

C21_Witness ==
    /\ pc = "main_returned"
    /\ x_teams = <<>>
    /\ ~m_args.no_csv /\ ~m_args.no_html /\ ~m_args.no_validate

\* the formats main was asked to write
EnabledFormats ==
    {f \in {"csv", "json", "markdown", "html"} :
       \/ f = "csv" /\ ~m_args.no_csv
       \/ f = "json" /\ ~m_args.no_json
       \/ f = "markdown" /\ ~m_args.no_markdown
       \/ f = "html" /\ ~m_args.no_html}

FormatWritten(f) ==
    CASE f = "csv" -> x_csv # <<>> /\ x_members_csv # <<>>
      [] f = "json" -> x_json # <<>> /\ x_members_json # <<>>
      [] f = "markdown" -> x_md # <<>>
      [] f = "html" -> x_html # <<>>

\* C22: when the write of one format fails in a run of main, every other
\* enabled format is still written: at most the failed one is missing.
C22_WriteFailureOnlyThatFormat ==
    (pc = "main_raised" /\ m_out = Raised("OSError"))
        => Cardinality({f \in EnabledFormats : ~FormatWritten(f)}) <= 1

(***************************************************************************)
(* Specification SpecFetch: one call of collect_team_info, with the        *)
(* page-by-page retrieval of get_issue_comments (lines 60-84)              *)
(***************************************************************************)
MaxPages == 3

\* comments the remote holds
FetchComment(id, body, login) ==
    [id |-> id, body |-> <<body>>, user |-> <<[login |-> login]>>]

\* response.status_code and response.json() of one page
Response(status_code, page_comments) ==
    [status_code |-> status_code, json |-> page_comments]

Responses ==
    { Response(200, <<FetchComment(123, TemplateBody, "user1")>>),
      Response(200, <<FetchComment(124, ShortBody, "user2")>>),
      Response(200, <<FetchComment(125, Plain, "user3")>>),
      Response(200, <<FetchComment(126, ShortBody, "user4"),
                      FetchComment(127, Plain, "user5")>>),
      Response(200, <<>>),
      Response(403, <<>>) }

\* the pages on which the loop of lines 67-81 breaks
StopsAt(response) ==
    response.status_code # 200 \/ response.json = <<>>

\* the remote answers each page; one of its pages ends the retrieval
Remotes ==
    { r \in UNION {[1..n -> Responses] : n \in 1..MaxPages} :
        \E p \in 1..Len(r) : StopsAt(r[p]) }

InitFetch ==
    /\ pc = "fetch"
    /\ f_remote \in Remotes
    /\ f_page = 1
    /\ f_log = <<>>
    /\ f_comments = <<>>
    /\ c_comments = <<>>
    /\ c_i = 0
    /\ c_teams = <<>>
    /\ c_out = Pending
    /\ IdleParse
    /\ IdleValidate
    /\ IdleExport
    /\ IdleMain

fetch_frame == <<parse_vars, validate_vars, x_vars, m_vars, f_remote>>

\* line 69: session.get(url, params={'page': page, ...})
session_get(page) == f_remote[page]

Logged(page, response) ==
    Append(f_log, [page |-> page, status_code |-> response.status_code])

\* a comments.extend that puts the page in front
list_extend_front(comments, page_comments) == page_comments \o comments

\* line 80: comments.extend(page_comments)
list_extend(comments, page_comments) == comments \o page_comments

\* lines 69-74: the status is not 200, break
FetchFails ==
    /\ pc = "fetch"
    /\ f_page <= Len(f_remote)
    /\ LET response == session_get(f_page)
       IN  /\ response.status_code # 200
           /\ f_log' = Logged(f_page, response)
    /\ pc' = "fetched"
    /\ UNCHANGED <<f_page, f_comments, collect_vars, fetch_frame>>

\* lines 76-78: the page is empty, break
FetchEmpty ==
    /\ pc = "fetch"
    /\ f_page <= Len(f_remote)
    /\ LET response == session_get(f_page)
       IN  /\ response.status_code = 200
           /\ response.json = <<>>
           /\ f_log' = Logged(f_page, response)
    /\ pc' = "fetched"
    /\ UNCHANGED <<f_page, f_comments, collect_vars, fetch_frame>>

\* lines 80-81
FetchExtend ==
    /\ pc = "fetch"
    /\ f_page <= Len(f_remote)
    /\ LET response == session_get(f_page)
       IN  /\ response.status_code = 200
           /\ response.json # <<>>
           /\ f_log' = Logged(f_page, response)
           /\ f_comments' = list_extend(f_comments, response.json)
    /\ f_page' = f_page + 1
    /\ UNCHANGED <<pc, collect_vars, fetch_frame>>

\* lines 84 and 151: the list is returned to collect_team_info
FetchReturn ==
    /\ pc = "fetched"
    /\ c_comments' = f_comments
    /\ pc' = "collect"
    /\ UNCHANGED <<c_i, c_teams, c_out, f_page, f_log, f_comments,
                   fetch_frame>>

\* the statements of get_issue_comments
get_issue_comments ==
    \/ FetchFails
    \/ FetchEmpty
    \/ FetchExtend
    \/ FetchReturn

NextFetch ==
    \/ FetchFails
    \/ FetchEmpty
    \/ FetchExtend
    \/ FetchReturn
    \/ CollectStep
    \/ CollectReturn

\* session.get blocks until the remote answers, and each statement of
\* get_issue_comments is followed by the next one
SpecFetch == InitFetch /\ [][NextFetch]_vars /\ WF_vars(get_issue_comments)

\* the requests on which the status was not 200
FailedRequests == {i \in 1..Len(f_log) : f_log[i].status_code # 200}

\* C23: a non-200 response on any page is surfaced before extraction:
\* once a request has failed, collect_team_info extracts nothing, so no
\* submission comes from the pages received before the failure.
C23_FailedFetchNoExtraction ==
    FailedRequests # {}
        => /\ c_i = 0
           /\ c_teams = <<>>

\* the first page on which the loop breaks
FirstStop ==
    CHOOSE p \in 1..Len(f_remote) :
        /\ StopsAt(f_remote[p])
        /\ \A q \in 1..(p - 1) : ~StopsAt(f_remote[q])

\* the comments of pages 1 .. n, in page order
PagesUpTo(n) == Concat([p \in 1..n |-> f_remote[p].json])

IdsOf(items, field) == [i \in 1..Len(items) |-> items[i][field]]

RECURSIVE IsSubsequence(_, _)
IsSubsequence(a, b) ==
    IF a = <<>> THEN TRUE
    ELSE IF b = <<>> THEN FALSE
    ELSE IF Head(a) = Head(b) THEN IsSubsequence(Tail(a), Tail(b))
    ELSE IsSubsequence(a, Tail(b))

FetchInOrder ==
    /\ \A i \in 1..Len(f_log) : f_log[i].page = i
    /\ Len(f_log) <= FirstStop
    /\ f_comments = PagesUpTo(IF Len(f_log) < FirstStop THEN Len(f_log)
                              ELSE FirstStop - 1)
    /\ pc # "fetch" => Len(f_log) = FirstStop
    /\ pc \in {"collect", "done", "aborted"}
           => c_comments = PagesUpTo(FirstStop - 1)
    /\ IsSubsequence(IdsOf(c_teams, "comment_id"),
                     IdsOf(SubSeq(c_comments, 1, c_i), "id"))

\* C30: get_issue_comments asks pages 1, 2, 3, ... in this order, stops at
\* the first page that is empty or not answered with 200 and returns the
\* pages before it concatenated in page order; with a remote that has such
\* a page get_issue_comments returns, and collect_team_info yields at most
\* one submission per comment, in comment order.
C30_FetchInPageOrderAndEnds ==
    /\ []FetchInOrder
    /\ <>(pc \in {"collect", "done", "aborted"})

C30_Witness ==
    /\ pc = "done"
    /\ Len(f_log) = MaxPages
    /\ Len(c_teams) >= 2
    /\ Len(c_teams) < Len(c_comments)

(***************************************************************************)
(* Claims about the labeled fields of parse_team_info                      *)
(***************************************************************************)
\* a team-name line with a value, and no pipe outside the table
HasTeamName == HasValuedNameLine(template) /\ PipeFree(template)

\* a table row with three non-blank cells and no run of dashes
HasMemberRow ==
    \E i \in 1..Len(template.rows) : template.rows[i] \in {RowX, RowY}

OptionalLabels ==
    << [label |-> "TeamAccount", field |-> "team_github_account"],
       [label |-> "TeamRepo", field |-> "team_repo_url"],
       [label |-> "SubmitTime", field |-> "submission_time"] >>

\* C24: a body with a team name and a surviving member row gives a TeamInfo
\* whether or not the account, repository and time labels are there, and a
\* field whose label is absent is the empty string.
C24_MissingOptionalFieldsEmpty ==
    (pc = "done" /\ p_body # <<>> /\ HasTeamName /\ HasMemberRow)
        => /\ p_out.tag = "returned"
           /\ p_out.value # <<>>
           /\ \A i \in 1..Len(OptionalLabels) :
                  ~Contains(p_body[1], OptionalLabels[i].label)
                      => p_out.value[1][OptionalLabels[i].field] = <<>>

C24_Witness ==
    /\ pc = "done"
    /\ HasTeamName
    /\ HasMemberRow
    /\ p_out.value # <<>>
    /\ p_out.value[1].team_github_account = <<>>
    /\ p_out.value[1].team_repo_url # <<>>
    /\ ~Contains(p_body[1], "SubmitTime")

LabeledFields ==
    << [label |-> "TeamName", field |-> "team_name"] >> \o OptionalLabels

\* where the label of a field first appears in the body, 0 when nowhere
FirstLabel(body, label) ==
    IF \E i \in 1..Len(body) : LabelAt(body, i, label)
    THEN SetMin({i \in 1..Len(body) : LabelAt(body, i, label)})
    ELSE 0

\* what follows the label at i on its own line
RestOfLine(body, i) ==
    LET after == i + 4
        stop == SetMin({q \in after..(Len(body) + 1) :
                          q > Len(body) \/ body[q] = "\n"})
    IN  SubSeq(body, after, stop - 1)

\* C25: each labeled field of a returned TeamInfo is the trimmed remainder
\* of the line on which its label first appears, never text of a later
\* line, also when only whitespace follows the label.
C25_FieldIsRestOfItsLine ==
    (pc = "done" /\ p_out.tag = "returned" /\ p_out.value # <<>>)
        => \A k \in 1..Len(LabeledFields) :
              LET i == FirstLabel(p_body[1], LabeledFields[k].label)
              IN  i # 0 => p_out.value[1][LabeledFields[k].field]
                               = strip(RestOfLine(p_body[1], i))

(***************************************************************************)
(* Claims about the marker, main and the views of the report               *)
(***************************************************************************)
\* the written team tables that carry the marker
MarkedTables ==
    MarkedFiles
    \cup (IF x_html # <<>> THEN {x_html[1].sections[1].rows} ELSE {})

OutsidePolicy(team) ==
    Len(team.members) < x_min \/ Len(team.members) > x_max

\* C26: after validate_teams, in the team CSV, the Markdown team table and
\* the compact view a team's row carries the marker exactly when the member
\* count of that team is outside [min, max], also when teams share a name.
C26_MarkerFollowsOwnCount ==
    x_findings # <<>>
        => \A rows \in MarkedTables :
              \A i \in 1..Len(SortedTeams) :
                  Marked(RowsOf(rows, "team")[i].cells[2])
                      <=> OutsidePolicy(SortedTeams[i])

\* C27: in main every export that reads the findings runs after
\* validate_teams produced them: with a non-empty list main raises nothing of
\* its own for any combination of the switches, every enabled format of a
\* run that returned is written, and with validation skipped no team is
\* marked and no warning is written.
C27_FindingsReadyForExports ==
    x_teams # <<>>
        => /\ m_out.tag = "raised" => m_out.exc = "OSError"
           /\ pc = "main_returned"
                 => \A f \in EnabledFormats : FormatWritten(f)
           /\ m_args.no_validate
                 => \A rows \in MarkedTables :
                       /\ \A i \in 1..Len(RowsOf(rows, "team")) :
                              ~Marked(RowsOf(rows, "team")[i].cells[2])
                       /\ RowsOf(rows, "warning") = <<>>

\* the member names a row of the full table shows
FullRowMembers(row) ==
    SelectSeq([m \in 1..MEMBER_SLOTS |-> row.cells[3 * m]],
              LAMBDA name : name # <<>>)

\* the member names listed on the i-th card
CardMembers(rows, i) ==
    LET cards == {k \in 1..Len(rows) : rows[k].kind = "card"}
        start == CHOOSE k \in cards :
                     Cardinality({j \in cards : j <= k}) = i
        stop == SetMin({k \in (start + 1)..(Len(rows) + 1) :
                          k > Len(rows) \/ rows[k].kind = "card"})
    IN  [k \in 1..(stop - start - 1) |-> rows[start + k].cells[1]]

MemberNames(team) == [m \in 1..Len(team.members) |-> team.members[m].name]

\* C28: the three views of the report list the teams in the same order,
\* member count descending, and the row or card of a team shows every
\* member of the team, whatever its size.
C28_ViewsShowSameData ==
    x_html # <<>>
        => /\ CompactTeamOrder = FullTableTeamOrder
           /\ CompactTeamOrder = CardsTeamOrder
           /\ CompactTeamOrder = IdsOf(SortedTeams, "team_github_account")
           /\ \A i \in 1..Len(SortedTeams) :
                 LET s == x_html[1].sections
                 IN  /\ RowsOf(s[1].rows, "team")[i].cells[4]
                           = members_text(SortedTeams[i])
                     /\ FullRowMembers(RowsOf(s[2].rows, "team")[i])
                           = MemberNames(SortedTeams[i])
                     /\ CardMembers(s[3].rows, i) = MemberNames(SortedTeams[i])

ActiveButtons == {i \in 1..Len(dom[1].page.buttons) : dom[1].page.buttons[i].active}

ActiveSections == {i \in 1..Len(dom[1].page.sections) : dom[1].page.sections[i].active}

\* the view the page must show: the one clicked last, compact before any click
ViewToShow == IF dom[1].clicked = <<>> THEN "compact" ELSE dom[1].clicked[1]

\* C29: from the generated document on and after any sequence of switchView
\* calls, exactly one section and exactly one button carry the class active,
\* and both are those of the view selected last.
C29_OneActiveView ==
    dom # <<>>
        => /\ Cardinality(ActiveButtons) = 1
           /\ Cardinality(ActiveSections) = 1
           /\ \A i \in ActiveButtons : dom[1].page.buttons[i].view = ViewToShow
           /\ \A i \in ActiveSections :
                  dom[1].page.sections[i].id = ViewToShow \o "-view"

C29_Witness ==
    /\ dom # <<>>
    /\ dom[1].clicked = <<"cards">>
    /\ dom[1].page.sections[3].active
    /\ ~dom[1].page.sections[1].active

====
